---- MODULE Spec2Model ----
(***************************************************************************)
(* The .env parser of nestjs-env-getter (env-parser.utils.ts): the line    *)
(* decoder parseLine, the escape decoder processEscapes, the interpolation *)
(* resolver expandVariables and the driver parseEnvString, with the file   *)
(* level entry points parseEnvFile and parseEnvFiles and the loaders       *)
(* loadEnvFile and loadEnvFiles, which write into process.env.             *)
(*                                                                         *)
(* A JavaScript string is a sequence of one-character strings.  Indices in *)
(* the helpers are 0-based, as in the source.  An optional value is a      *)
(* sequence of length 0 (absent) or 1 (present).  Key names range over     *)
(* identifiers that are not members of Object.prototype.                   *)
(***************************************************************************)
EXTENDS Integers, Sequences, FiniteSets, TLC

VARIABLES
    content,            \* parseEnvString: the content argument
    options,            \* the options argument: accumulate, systemEnv (optional),
                        \* override
    processEnv,         \* process.env
    envAtCall,          \* process.env as it was when the call was made
    fs,                 \* the file system: path -> file state
    pc,                 \* position in parseEnvString
    lines,              \* parseEnvString: lines
    i,                  \* parseEnvString: index of the first loop
    buffer,             \* parseEnvString: the pending multiline buffer
    variables,          \* parseEnvString: the raw variable map, in insertion order
    errors,             \* parseEnvString: errors
    entries,            \* parseEnvString: Object.entries(variables) of the second pass
    k,                  \* parseEnvString: index of the second pass
    expandedVariables,  \* parseEnvString: expandedVariables
    call,               \* the entry point called, with its path arguments
    outcome             \* what the call returned or threw

vars == <<content, options, processEnv, envAtCall, fs, pc, lines, i, buffer, variables,
          errors, entries, k, expandedVariables, call, outcome>>

----------------------------------------------------------------------------
(* Characters *)

LF == "\n"
CR == "\r"
TAB == "\t"
BS == "\\"
DQ == "\""
SQ == "'"
\* the grave accent
BACKTICK == "BACKTICK"

Letters == {"a","b","c","d","e","f","g","h","i","j","k","l","m","n","o","p","q",
            "r","s","t","u","v","w","x","y","z","A","B","C","D","E","F","G","H",
            "I","J","K","L","M","N","O","P","Q","R","S","T","U","V","W","X","Y","Z"}
Digits == {"0","1","2","3","4","5","6","7","8","9"}

\* The white space String.prototype.trim removes (of the characters modelled).
WhiteSpace == {" ", TAB, LF, CR}

----------------------------------------------------------------------------
(* String primitives, 0-based as in JavaScript *)

Min(S) == CHOOSE x \in S : \A y \in S : x <= y

\* s.charAt(n): "" past the end
CharAt(s, n) == IF n < Len(s) THEN s[n + 1] ELSE ""

\* s.substring(a, b) for 0 <= a <= b <= s.length
Substring(s, a, b) == SubSeq(s, a + 1, b)

\* s.substring(a)
SubstringFrom(s, a) == SubSeq(s, a + 1, Len(s))

\* s.indexOf(c, from) for a one-character c
IndexOf(s, c, from) ==
    LET I == {n \in from..(Len(s) - 1) : s[n + 1] = c}
    IN  IF I = {} THEN -1 ELSE Min(I)

\* s.startsWith(p)
StartsWith(s, p) == Len(s) >= Len(p) /\ SubSeq(s, 1, Len(p)) = p

\* s.indexOf(p) for a string p
IndexOfString(s, p) ==
    LET I == {n \in 0..(Len(s) - Len(p)) : SubSeq(s, n + 1, n + Len(p)) = p}
    IN  IF I = {} THEN -1 ELSE Min(I)

TrimStart(s) ==
    LET I == {n \in 0..(Len(s) - 1) : s[n + 1] \notin WhiteSpace}
    IN  IF I = {} THEN <<>> ELSE SubstringFrom(s, Min(I))

TrimEnd(s) ==
    LET I == {n \in 1..Len(s) : s[n] \notin WhiteSpace}
    IN  IF I = {} THEN <<>> ELSE SubSeq(s, 1, CHOOSE n \in I : \A m \in I : m <= n)

Trim(s) == TrimEnd(TrimStart(s))

\* parts.join(sep)
RECURSIVE Join(_, _)
Join(parts, sep) ==
    IF parts = <<>> THEN <<>>
    ELSE IF Len(parts) = 1 THEN parts[1]
    ELSE parts[1] \o sep \o Join(Tail(parts), sep)

\* content.replace(/\r\n/g, "\n").replace(/\r/g, "\n")
RECURSIVE NormalizeLineEndings(_)
NormalizeLineEndings(s) ==
    IF s = <<>> THEN <<>>
    ELSE IF s[1] = CR /\ Len(s) >= 2 /\ s[2] = LF
         THEN <<LF>> \o NormalizeLineEndings(SubstringFrom(s, 2))
    ELSE IF s[1] = CR THEN <<LF>> \o NormalizeLineEndings(Tail(s))
    ELSE <<s[1]>> \o NormalizeLineEndings(Tail(s))

\* s.split("\n")
RECURSIVE SplitLines(_)
SplitLines(s) ==
    LET n == IndexOf(s, LF, 0)
    IN  IF n = -1 THEN <<s>>
        ELSE <<Substring(s, 0, n)>> \o SplitLines(SubstringFrom(s, n + 1))

\* KEY_REGEX.test(key): /^[a-zA-Z_][a-zA-Z0-9_]*$/
KEY_REGEX(key) ==
    /\ Len(key) >= 1
    /\ key[1] \in Letters \cup {"_"}
    /\ \A n \in 2..Len(key) : key[n] \in Letters \cup Digits \cup {"_"}

----------------------------------------------------------------------------
(* Errors *)

\* createError: an EnvParseError.  A message is a sequence of text pieces.
createError(lineNumber, rawContent, message, type) ==
    [lineNumber |-> lineNumber, rawContent |-> rawContent,
     message |-> message, type |-> type]

\* `Line ${lineNumber}: Missing '=' in assignment`
MissingEqualsMessage(lineNumber) ==
    <<"Line ", ToString(lineNumber), ": Missing '=' in assignment">>

\* `Line ${lineNumber}: Invalid key '${key}'. Keys must start with ...`
InvalidKeyMessage(lineNumber, key) ==
    <<"Line ", ToString(lineNumber), ": Invalid key '">> \o key
        \o <<"'. Keys must start with a letter or underscore and contain only alphanumeric characters and underscores.">>

\* `Unterminated ${...}-quoted string starting at line ${buffer.startLine}`
UnterminatedMessage(quoteChar, startLine) ==
    <<"Unterminated ", IF quoteChar = DQ THEN "double" ELSE "single",
      "-quoted string starting at line ", ToString(startLine)>>

\* message.startsWith("Line ")
StartsWithLine(message) == message # <<>> /\ Head(message) = "Line "

----------------------------------------------------------------------------
(* processEscapes *)

RECURSIVE processEscapesFrom(_, _, _)
processEscapesFrom(value, n, result) ==
    IF ~(n < Len(value)) THEN result
    ELSE IF CharAt(value, n) = BS /\ n + 1 < Len(value)
    THEN LET next == CharAt(value, n + 1)
         IN  IF next = "n" THEN processEscapesFrom(value, n + 2, result \o <<LF>>)
             ELSE IF next = "t" THEN processEscapesFrom(value, n + 2, result \o <<TAB>>)
             ELSE IF next = "r" THEN processEscapesFrom(value, n + 2, result \o <<CR>>)
             ELSE IF next = BS THEN processEscapesFrom(value, n + 2, result \o <<BS>>)
             ELSE IF next = DQ THEN processEscapesFrom(value, n + 2, result \o <<DQ>>)
             ELSE processEscapesFrom(value, n + 1, result \o <<CharAt(value, n)>>)
    ELSE processEscapesFrom(value, n + 1, result \o <<CharAt(value, n)>>)

\* processEscapes dropping the backslash of an unknown escape
RECURSIVE processEscapesDroppingUnknownFrom(_, _, _)
processEscapesDroppingUnknownFrom(value, n, result) ==
    IF ~(n < Len(value)) THEN result
    ELSE IF CharAt(value, n) = BS /\ n + 1 < Len(value)
    THEN LET next == CharAt(value, n + 1)
         IN  processEscapesDroppingUnknownFrom(value, n + 2,
                 result \o <<IF next = "n" THEN LF
                             ELSE IF next = "t" THEN TAB
                             ELSE IF next = "r" THEN CR
                             ELSE next>>)
    ELSE processEscapesDroppingUnknownFrom(value, n + 1, result \o <<CharAt(value, n)>>)

processEscapesDroppingUnknown(value) == processEscapesDroppingUnknownFrom(value, 0, <<>>)

processEscapes(value) == processEscapesFrom(value, 0, <<>>)

----------------------------------------------------------------------------
(* parseLine *)

NoBuffer == <<>>
NoError == <<>>

\* the scan for the closing double quote, from index n with `value` collected
RECURSIVE ScanDoubleQuoted(_, _, _)
ScanDoubleQuoted(rawValue, n, value) ==
    IF ~(n < Len(rawValue)) THEN [value |-> value, foundClosing |-> FALSE]
    ELSE IF CharAt(rawValue, n) = BS /\ n + 1 < Len(rawValue)
    THEN ScanDoubleQuoted(rawValue, n + 2,
                          value \o <<CharAt(rawValue, n), CharAt(rawValue, n + 1)>>)
    ELSE IF CharAt(rawValue, n) = DQ THEN [value |-> value, foundClosing |-> TRUE]
    ELSE ScanDoubleQuoted(rawValue, n + 1, value \o <<CharAt(rawValue, n)>>)

\* a return value of parseLine
LineResult(hasKey, key, value, isComplete, buf, error) ==
    [hasKey |-> hasKey, key |-> key, value |-> value, isComplete |-> isComplete,
     buffer |-> buf, error |-> error]

\* parseLineContinue decoding the escapes of a double-quoted value
parseLineContinueDecoding(line, buf) ==
    LET closingIndex == IndexOf(line, buf.quoteChar, 0)
        value == buf.value \o <<LF>> \o Substring(line, 0, closingIndex)
    IN  IF closingIndex # -1
        THEN LineResult(TRUE, buf.key,
                        IF buf.quoteChar = DQ THEN processEscapes(value) ELSE value,
                        TRUE, NoBuffer, NoError)
        ELSE LineResult(FALSE, <<>>, <<>>, FALSE,
                        <<[buf EXCEPT !.value = buf.value \o <<LF>> \o line]>>, NoError)

\* the multiline branch: a buffer is pending
parseLineContinue(line, buf) ==
    LET closingIndex == IndexOf(line, buf.quoteChar, 0)
    IN  IF closingIndex # -1
        THEN LineResult(TRUE, buf.key,
                        buf.value \o <<LF>> \o Substring(line, 0, closingIndex),
                        TRUE, NoBuffer, NoError)
        ELSE LineResult(FALSE, <<>>, <<>>, FALSE,
                        <<[buf EXCEPT !.value = buf.value \o <<LF>> \o line]>>, NoError)

\* the value decoder: rawValue is everything after "="
parseValue(key, rawValue, lineNumber) ==
    LET firstChar == CharAt(rawValue, 0)
    IN  IF firstChar = SQ
        THEN LET closingIndex == IndexOf(rawValue, SQ, 1)
             IN  IF closingIndex = -1
                 THEN LineResult(FALSE, <<>>, <<>>, FALSE,
                                 <<[key |-> key, value |-> SubstringFrom(rawValue, 1),
                                    quoteChar |-> SQ, startLine |-> lineNumber]>>, NoError)
                 ELSE LineResult(TRUE, key, Substring(rawValue, 1, closingIndex),
                                 TRUE, NoBuffer, NoError)
        ELSE IF firstChar = DQ
        THEN LET scan == ScanDoubleQuoted(rawValue, 1, <<>>)
             IN  IF ~scan.foundClosing
                 THEN LineResult(FALSE, <<>>, <<>>, FALSE,
                                 <<[key |-> key, value |-> scan.value,
                                    quoteChar |-> DQ, startLine |-> lineNumber]>>, NoError)
                 ELSE LineResult(TRUE, key, processEscapes(scan.value),
                                 TRUE, NoBuffer, NoError)
        ELSE LET trimmed == Trim(rawValue)
                 commentIndex == IndexOf(trimmed, "#", 0)
             IN  LineResult(TRUE, key,
                            IF commentIndex # -1
                            THEN TrimEnd(Substring(trimmed, 0, commentIndex))
                            ELSE trimmed,
                            TRUE, NoBuffer, NoError)

ExportPrefix == <<"e", "x", "p", "o", "r", "t", " ">>

\* the line without leading white space and without its 'export ' prefix
WorkingLine(line) ==
    LET trimmedLine == TrimStart(line)
    IN  IF StartsWith(trimmedLine, ExportPrefix)
        THEN TrimStart(SubstringFrom(trimmedLine, Len(ExportPrefix)))
        ELSE trimmedLine

\* everything after the first "=" of a working line that has one
RawValue(workingLine) == SubstringFrom(workingLine, IndexOf(workingLine, "=", 0) + 1)

\* parseLine without the test of the key
parseLineAnyKey(line, lineNumber, buf) ==
    IF buf # NoBuffer THEN parseLineContinue(line, buf[1])
    ELSE
    LET trimmedLine == TrimStart(line)
        workingLine == WorkingLine(line)
        equalsIndex == IndexOf(workingLine, "=", 0)
        key == Trim(Substring(workingLine, 0, equalsIndex))
    IN  IF trimmedLine = <<>> \/ StartsWith(trimmedLine, <<"#">>)
        THEN LineResult(FALSE, <<>>, <<>>, TRUE, NoBuffer, NoError)
        ELSE IF equalsIndex = -1
        THEN LineResult(FALSE, <<>>, <<>>, TRUE, NoBuffer,
                        <<createError(lineNumber, line, MissingEqualsMessage(lineNumber),
                                      "MALFORMED_LINE")>>)
        ELSE parseValue(key, RawValue(workingLine), lineNumber)

parseLine(line, lineNumber, buf) ==
    IF buf # NoBuffer THEN parseLineContinue(line, buf[1])
    ELSE
    LET trimmedLine == TrimStart(line)
        workingLine == WorkingLine(line)
        equalsIndex == IndexOf(workingLine, "=", 0)
        key == Trim(Substring(workingLine, 0, equalsIndex))
    IN  IF trimmedLine = <<>> \/ StartsWith(trimmedLine, <<"#">>)
        THEN LineResult(FALSE, <<>>, <<>>, TRUE, NoBuffer, NoError)
        ELSE IF equalsIndex = -1
        THEN LineResult(FALSE, <<>>, <<>>, TRUE, NoBuffer,
                        <<createError(lineNumber, line, MissingEqualsMessage(lineNumber),
                                      "MALFORMED_LINE")>>)
        ELSE IF ~KEY_REGEX(key)
        THEN LineResult(FALSE, <<>>, <<>>, TRUE, NoBuffer,
                        <<createError(lineNumber, line, InvalidKeyMessage(lineNumber, key),
                                      "INVALID_KEY")>>)
        ELSE parseValue(key, RawValue(workingLine), lineNumber)

----------------------------------------------------------------------------
(* The variable map: a JavaScript object with string keys, as the sequence *)
(* of its entries in insertion order                                       *)

Entry(key, value) == [key |-> key, value |-> value]

\* key in obj
HasKey(obj, key) == \E n \in 1..Len(obj) : obj[n].key = key

\* obj[key], for a key of obj
Get(obj, key) == obj[CHOOSE n \in 1..Len(obj) : obj[n].key = key].value

\* obj[key] = value: a present key keeps its place
Put(obj, key, value) ==
    IF HasKey(obj, key)
    THEN [n \in 1..Len(obj) |-> IF obj[n].key = key THEN Entry(key, value) ELSE obj[n]]
    ELSE Append(obj, Entry(key, value))

Keys(obj) == {obj[n].key : n \in 1..Len(obj)}

----------------------------------------------------------------------------
(* Interpolation *)

IdentifierStart == Letters \cup {"_"}
IdentifierPart == Letters \cup Digits \cup {"_"}

\* the end (exclusive) of the longest run of identifier characters from index n
RECURSIVE IdentifierEnd(_, _)
IdentifierEnd(s, n) ==
    IF n < Len(s) /\ CharAt(s, n) \in IdentifierPart THEN IdentifierEnd(s, n + 1) ELSE n

\* INTERPOLATION_REGEX matches at index n of s: /\$\{([a-zA-Z_][a-zA-Z0-9_]*)\}/
MatchesAt(s, n) ==
    /\ CharAt(s, n) = "$"
    /\ CharAt(s, n + 1) = "{"
    /\ CharAt(s, n + 2) \in IdentifierStart
    /\ CharAt(s, IdentifierEnd(s, n + 2)) = "}"

\* the successive results of regex.exec(value), from lastIndex n:
\* match[0] (fullMatch) and match[1] (varName)
RECURSIVE INTERPOLATION_REGEX(_, _)
INTERPOLATION_REGEX(value, n) ==
    IF ~(n < Len(value)) THEN <<>>
    ELSE IF MatchesAt(value, n)
    THEN LET e == IdentifierEnd(value, n + 2)
         IN  <<[fullMatch |-> Substring(value, n, e + 1),
                varName |-> Substring(value, n + 2, e)]>>
             \o INTERPOLATION_REGEX(value, e + 1)
    ELSE INTERPOLATION_REGEX(value, n + 1)

\* GetSubstitution of String.prototype.replace for a string pattern (no
\* captures): $$, $&, $BACKTICK and $' are replacement patterns
RECURSIVE GetSubstitution(_, _, _, _)
GetSubstitution(matched, str, position, replacement) ==
    IF replacement = <<>> THEN <<>>
    ELSE IF replacement[1] = "$" /\ Len(replacement) >= 2
            /\ replacement[2] \in {"$", "&", BACKTICK, SQ}
    THEN (IF replacement[2] = "$" THEN <<"$">>
          ELSE IF replacement[2] = "&" THEN matched
          ELSE IF replacement[2] = BACKTICK THEN Substring(str, 0, position)
          ELSE SubstringFrom(str, position + Len(matched)))
         \o GetSubstitution(matched, str, position, SubstringFrom(replacement, 2))
    ELSE <<replacement[1]>> \o GetSubstitution(matched, str, position, Tail(replacement))

\* result.replace(fullMatch, replacement): the first occurrence of the string
replace(result, fullMatch, replacement) ==
    LET position == IndexOfString(result, fullMatch)
    IN  IF position = -1 THEN result
        ELSE Substring(result, 0, position)
             \o GetSubstitution(fullMatch, result, position, replacement)
             \o SubstringFrom(result, position + Len(fullMatch))

\* `Circular reference detected: ${[...resolutionStack, varName].join(" -> ")}`
CircularMessage(chain) == <<"Circular reference detected: ">> \o Join(chain, <<" -> ">>)

\* detectCircularReference listing the stack without the name found again
detectCircularReferenceStackOnly(varName, resolutionStack) ==
    IF \E n \in 1..Len(resolutionStack) : resolutionStack[n] = varName
    THEN <<CircularMessage(resolutionStack)>>
    ELSE <<>>

\* resolutionStack is a Set of names, as the sequence of its insertion order
detectCircularReference(varName, resolutionStack) ==
    IF \E n \in 1..Len(resolutionStack) : resolutionStack[n] = varName
    THEN <<CircularMessage(Append(resolutionStack, varName))>>
    ELSE <<>>

\* systemEnv: a function from names to an optional string
\* varName in systemEnv && systemEnv[varName] !== undefined
DefinedIn(systemEnv, varName) ==
    varName \in DOMAIN systemEnv /\ systemEnv[varName] # <<>>

\* LookupSource looking in the system environment first
LookupSourceSystemFirst(vs, systemEnv, varName) ==
    IF DefinedIn(systemEnv, varName) THEN "system"
    ELSE IF HasKey(vs, varName) THEN "local"
    ELSE "none"

\* which branch of the lookup a name takes: local variables first, then
\* the system environment, else not found
LookupSource(vs, systemEnv, varName) ==
    IF HasKey(vs, varName) THEN "local"
    ELSE IF DefinedIn(systemEnv, varName) THEN "system"
    ELSE "none"

Max(a, b) == IF a >= b THEN a ELSE b

\* a return value of expandVariables; `deepest` is the size of the largest
\* resolution stack of the calls made for it
Expansion(result, circularError, deepest) ==
    [result |-> result, circularError |-> circularError, deepest |-> deepest]

RECURSIVE expandVariables(_, _, _, _)
RECURSIVE expandMatches(_, _, _, _, _, _, _)

\* AfterDescent leaving the expanded name on the stack for the matches
\* that follow
AfterDescentKeepingName(value, matches, m, acc, vs, systemEnv, resolutionStack, expanded) ==
    IF expanded.circularError # <<>> THEN expanded
    ELSE expandMatches(value, matches, m + 1,
                       Expansion(replace(acc.result, matches[m].fullMatch, expanded.result),
                                 <<>>, Max(acc.deepest, expanded.deepest)),
                       vs, systemEnv, Append(resolutionStack, matches[m].varName))

\* what follows the recursive call of expandVariables for match number m
AfterDescent(value, matches, m, acc, vs, systemEnv, resolutionStack, expanded) ==
    IF expanded.circularError # <<>> THEN expanded
    ELSE expandMatches(value, matches, m + 1,
                       Expansion(replace(acc.result, matches[m].fullMatch, expanded.result),
                                 <<>>, Max(acc.deepest, expanded.deepest)),
                       vs, systemEnv, resolutionStack)

\* the while loop of expandVariables, at match number m with `acc.result` so far
expandMatches(value, matches, m, acc, vs, systemEnv, resolutionStack) ==
    IF m > Len(matches) THEN acc
    ELSE
    LET fullMatch == matches[m].fullMatch
        varName == matches[m].varName
        circularError == detectCircularReference(varName, resolutionStack)
        source == LookupSource(vs, systemEnv, varName)
    IN  IF circularError # <<>> THEN Expansion(value, circularError, acc.deepest)
        ELSE IF source = "local"
        THEN AfterDescent(value, matches, m, acc, vs, systemEnv, resolutionStack,
                          expandVariables(Get(vs, varName), vs, systemEnv,
                                          Append(resolutionStack, varName)))
        ELSE expandMatches(value, matches, m + 1,
                           Expansion(replace(acc.result, fullMatch,
                                             IF source = "system"
                                             THEN systemEnv[varName][1] ELSE <<>>),
                                     <<>>, acc.deepest),
                           vs, systemEnv, resolutionStack)

expandVariables(value, vs, systemEnv, resolutionStack) ==
    expandMatches(value, INTERPOLATION_REGEX(value, 0), 1,
                  Expansion(value, <<>>, Len(resolutionStack)),
                  vs, systemEnv, resolutionStack)

----------------------------------------------------------------------------
(* parseEnvString.  A frame holds its local variables and position; an     *)
(* outcome is what a call returned ({variables, errors, success}) or threw *)
(* (new Error(message)).                                                   *)

NoOutcome ==
    [kind |-> "none", variables |-> <<>>, errors |-> <<>>, success |-> FALSE,
     message |-> <<>>]

\* Returned with success set whatever the errors
ReturnedSuccessful(vs, errs) ==
    [kind |-> "returned", variables |-> vs, errors |-> errs, success |-> TRUE,
     message |-> <<>>]

Returned(vs, errs) ==
    [kind |-> "returned", variables |-> vs, errors |-> errs, success |-> Len(errs) = 0,
     message |-> <<>>]

\* throw new Error(message)
Thrown(message) ==
    [kind |-> "thrown", variables |-> <<>>, errors |-> <<>>, success |-> FALSE,
     message |-> message]

\* const { accumulate = false, systemEnv = process.env } = options
SystemEnvOf(opts, penv) == IF opts.systemEnv = <<>> THEN penv ELSE opts.systemEnv[1]

\* the state of parseEnvString before its first loop
EnterParseEnvString(text) ==
    [pc |-> "loop", lines |-> SplitLines(NormalizeLineEndings(text)), i |-> 0,
     buffer |-> NoBuffer, variables |-> <<>>, errors |-> <<>>, entries |-> <<>>,
     k |-> 1, expandedVariables |-> <<>>, outcome |-> NoOutcome]

\* LoopIteration leaving the loop at the first error of accumulate mode
LoopIterationStopsAtError(f, accumulate) ==
    LET lineNumber == f.i + 1
        line == f.lines[f.i + 1]
        result == parseLine(line, lineNumber, f.buffer)
    IN  IF result.error # NoError /\ ~accumulate
        THEN [f EXCEPT !.pc = "done", !.outcome = Thrown(result.error[1].message)]
        ELSE [f EXCEPT
                !.errors = IF result.error # NoError THEN Append(@, result.error[1]) ELSE @,
                !.variables = IF result.isComplete /\ result.hasKey
                              THEN Put(@, result.key, result.value) ELSE @,
                !.buffer = result.buffer,
                !.i = IF result.error # NoError THEN Len(f.lines) ELSE f.i + 1]

\* one iteration of the first loop
LoopIteration(f, accumulate) ==
    LET lineNumber == f.i + 1
        line == f.lines[f.i + 1]
        result == parseLine(line, lineNumber, f.buffer)
    IN  IF result.error # NoError /\ ~accumulate
        THEN [f EXCEPT !.pc = "done", !.outcome = Thrown(result.error[1].message)]
        ELSE [f EXCEPT
                !.errors = IF result.error # NoError THEN Append(@, result.error[1]) ELSE @,
                !.variables = IF result.isComplete /\ result.hasKey
                              THEN Put(@, result.key, result.value) ELSE @,
                !.buffer = result.buffer,
                !.i = f.i + 1]

\* CheckUnterminated throwing nothing in fail-fast mode
CheckUnterminatedSilent(f, accumulate) ==
    IF f.buffer # NoBuffer /\ accumulate
    THEN LET buf == f.buffer[1]
             error == createError(buf.startLine,
                                  <<"Started at line ", ToString(buf.startLine)>>,
                                  UnterminatedMessage(buf.quoteChar, buf.startLine),
                                  "UNTERMINATED_QUOTE")
         IN  [f EXCEPT !.errors = Append(@, error), !.pc = "interpolate",
                       !.entries = f.variables]
    ELSE [f EXCEPT !.pc = "interpolate", !.entries = f.variables]

\* CheckUnterminated reporting the last line read in place of buffer.startLine
CheckUnterminatedAtLastLine(f, accumulate) ==
    IF f.buffer # NoBuffer
    THEN LET buf == f.buffer[1]
             error == createError(Len(f.lines),
                                  <<"Started at line ", ToString(Len(f.lines))>>,
                                  UnterminatedMessage(buf.quoteChar, Len(f.lines)),
                                  "UNTERMINATED_QUOTE")
         IN  IF accumulate
             THEN [f EXCEPT !.errors = Append(@, error), !.pc = "interpolate",
                            !.entries = f.variables]
             ELSE [f EXCEPT !.pc = "done", !.outcome = Thrown(error.message)]
    ELSE [f EXCEPT !.pc = "interpolate", !.entries = f.variables]

\* after the first loop: the check for an unterminated multiline string, then
\* Object.entries(variables) of the second pass
CheckUnterminated(f, accumulate) ==
    IF f.buffer # NoBuffer
    THEN LET buf == f.buffer[1]
             error == createError(buf.startLine,
                                  <<"Started at line ", ToString(buf.startLine)>>,
                                  UnterminatedMessage(buf.quoteChar, buf.startLine),
                                  "UNTERMINATED_QUOTE")
         IN  IF accumulate
             THEN [f EXCEPT !.errors = Append(@, error), !.pc = "interpolate",
                            !.entries = f.variables]
             ELSE [f EXCEPT !.pc = "done", !.outcome = Thrown(error.message)]
    ELSE [f EXCEPT !.pc = "interpolate", !.entries = f.variables]

\* InterpolateEntry keeping, on a circular reference, the result expandVariables
\* returned with the error
InterpolateEntryKeepsResult(f, accumulate, systemEnv) ==
    LET key == f.entries[f.k].key
        value == f.entries[f.k].value
        expanded == expandVariables(value, f.variables, systemEnv, <<key>>)
    IN  IF expanded.circularError # <<>>
        THEN LET error == createError(0, key, expanded.circularError[1],
                                      "CIRCULAR_REFERENCE")
             IN  IF accumulate
                 THEN [f EXCEPT !.errors = Append(@, error),
                                !.expandedVariables = Put(@, key, expanded.result),
                                !.k = f.k + 1]
                 ELSE [f EXCEPT !.pc = "done", !.outcome = Thrown(error.message)]
        ELSE [f EXCEPT !.expandedVariables = Put(@, key, expanded.result),
                       !.k = f.k + 1]

\* InterpolateEntry recording no error for a circular reference
InterpolateEntryUnrecorded(f, accumulate, systemEnv) ==
    LET key == f.entries[f.k].key
        value == f.entries[f.k].value
        expanded == expandVariables(value, f.variables, systemEnv, <<key>>)
    IN  IF expanded.circularError # <<>>
        THEN [f EXCEPT !.expandedVariables = Put(@, key, value), !.k = f.k + 1]
        ELSE [f EXCEPT !.expandedVariables = Put(@, key, expanded.result),
                       !.k = f.k + 1]

\* InterpolateEntry resolving against the entries up to the current one only
\* (a single pass over the file)
InterpolateEntrySinglePass(f, accumulate, systemEnv) ==
    LET key == f.entries[f.k].key
        value == f.entries[f.k].value
        expanded == expandVariables(value, SubSeq(f.entries, 1, f.k), systemEnv, <<key>>)
    IN  IF expanded.circularError # <<>>
        THEN LET error == createError(0, key, expanded.circularError[1],
                                      "CIRCULAR_REFERENCE")
             IN  IF accumulate
                 THEN [f EXCEPT !.errors = Append(@, error),
                                !.expandedVariables = Put(@, key, value),
                                !.k = f.k + 1]
                 ELSE [f EXCEPT !.pc = "done", !.outcome = Thrown(error.message)]
        ELSE [f EXCEPT !.expandedVariables = Put(@, key, expanded.result),
                       !.k = f.k + 1]

\* InterpolateEntry putting the error of a circular reference before the
\* errors recorded so far
InterpolateEntryErrorFirst(f, accumulate, systemEnv) ==
    LET key == f.entries[f.k].key
        value == f.entries[f.k].value
        expanded == expandVariables(value, f.variables, systemEnv, <<key>>)
    IN  IF expanded.circularError # <<>>
        THEN LET error == createError(0, key, expanded.circularError[1],
                                      "CIRCULAR_REFERENCE")
             IN  IF accumulate
                 THEN [f EXCEPT !.errors = <<error>> \o @,
                                !.expandedVariables = Put(@, key, value),
                                !.k = f.k + 1]
                 ELSE [f EXCEPT !.pc = "done", !.outcome = Thrown(error.message)]
        ELSE [f EXCEPT !.expandedVariables = Put(@, key, expanded.result),
                       !.k = f.k + 1]

\* one iteration of the second pass
InterpolateEntry(f, accumulate, systemEnv) ==
    LET key == f.entries[f.k].key
        value == f.entries[f.k].value
        expanded == expandVariables(value, f.variables, systemEnv, <<key>>)
    IN  IF expanded.circularError # <<>>
        THEN LET error == createError(0, key, expanded.circularError[1],
                                      "CIRCULAR_REFERENCE")
             IN  IF accumulate
                 THEN [f EXCEPT !.errors = Append(@, error),
                                !.expandedVariables = Put(@, key, value),
                                !.k = f.k + 1]
                 ELSE [f EXCEPT !.pc = "done", !.outcome = Thrown(error.message)]
        ELSE [f EXCEPT !.expandedVariables = Put(@, key, expanded.result),
                       !.k = f.k + 1]

\* return { variables: expandedVariables, errors, success: errors.length === 0 }
ReturnResult(f) ==
    [f EXCEPT !.pc = "done", !.outcome = Returned(f.expandedVariables, f.errors)]

\* the next step of parseEnvString from frame f
StepParseEnvString(f, accumulate, systemEnv) ==
    IF f.pc = "loop"
    THEN IF f.i < Len(f.lines) THEN LoopIteration(f, accumulate)
         ELSE CheckUnterminated(f, accumulate)
    ELSE IF f.k <= Len(f.entries) THEN InterpolateEntry(f, accumulate, systemEnv)
         ELSE ReturnResult(f)

RECURSIVE RunParseEnvString(_, _, _)
RunParseEnvString(f, accumulate, systemEnv) ==
    IF f.pc = "done" THEN f.outcome
    ELSE RunParseEnvString(StepParseEnvString(f, accumulate, systemEnv),
                           accumulate, systemEnv)

\* parseEnvString(content, options), with process.env as penv
parseEnvString(text, opts, penv) ==
    RunParseEnvString(EnterParseEnvString(text), opts.accumulate,
                      SystemEnvOf(opts, penv))

----------------------------------------------------------------------------
(* Files *)

\* a file of the file system
File(exists, readable, text) == [exists |-> exists, readable |-> readable, text |-> text]

\* existsSync(filePath)
existsSync(files, filePath) == files[filePath].exists

\* the message of the error readFileSync throws on a file it cannot read
ReadErrorMessage(files, filePath) ==
    IF files[filePath].exists
    THEN <<"EACCES: permission denied, open '", filePath, "'">>
    ELSE <<"ENOENT: no such file or directory, open '", filePath, "'">>

CanRead(files, filePath) == files[filePath].exists /\ files[filePath].readable

FileReadError(filePath, message) == createError(0, <<filePath>>, message, "FILE_READ_ERROR")

\* CatchReadError throwing in accumulate mode too
CatchReadErrorThrows(filePath, opts, thrown) ==
    IF StartsWithLine(thrown.message) THEN thrown
    ELSE Thrown(<<"Error reading file ", filePath, ": ">> \o thrown.message)

\* the catch block of parseEnvFile, for what its try block threw
CatchReadError(filePath, opts, thrown) ==
    IF StartsWithLine(thrown.message) THEN thrown
    ELSE LET error == FileReadError(filePath,
                          <<"Error reading file ", filePath, ": ">> \o thrown.message)
         IN  IF opts.accumulate THEN Returned(<<>>, <<error>>)
             ELSE Thrown(error.message)

\* the end of parseEnvFile, for what its try block returned or threw
AfterTry(filePath, opts, tried) ==
    IF tried.kind # "thrown" THEN tried ELSE CatchReadError(filePath, opts, tried)

parseEnvFile(filePath, opts, files, penv) ==
    IF ~existsSync(files, filePath)
    THEN LET error == FileReadError(filePath, <<"File not found: ", filePath>>)
         IN  IF opts.accumulate THEN Returned(<<>>, <<error>>) ELSE Thrown(error.message)
    ELSE AfterTry(filePath, opts,
                  IF CanRead(files, filePath)
                  THEN parseEnvString(files[filePath].text, opts, penv)
                  ELSE Thrown(ReadErrorMessage(files, filePath)))

\* Object.assign keeping the values the target has
RECURSIVE ObjectAssignKeepsTarget(_, _)
ObjectAssignKeepsTarget(target, source) ==
    IF source = <<>> THEN target
    ELSE ObjectAssignKeepsTarget(
             IF HasKey(target, source[1].key) THEN target
             ELSE Put(target, source[1].key, source[1].value),
             Tail(source))

\* Object.assign(target, source)
RECURSIVE ObjectAssign(_, _)
ObjectAssign(target, source) ==
    IF source = <<>> THEN target
    ELSE ObjectAssign(Put(target, source[1].key, source[1].value), Tail(source))

\* what the loop of parseEnvFiles has collected
Collected(allVariables, allErrors) ==
    [allVariables |-> allVariables, allErrors |-> allErrors]

\* one source's result merged into what is collected
Collect(all, result) ==
    Collected(ObjectAssign(all.allVariables, result.variables),
              all.allErrors \o result.errors)

\* LoopOfParseEnvFiles parsing the paths that do not exist too
LoopOfParseEnvFilesUnskipped(all, filePath, opts, files, penv) ==
    Collect(all, parseEnvFile(filePath, [opts EXCEPT !.accumulate = TRUE], files, penv))

\* LoopOfParseEnvFiles resolving the tokens of a source from the variables
\* of the sources before it too
LoopOfParseEnvFilesSharing(all, filePath, opts, files, penv) ==
    IF ~existsSync(files, filePath) THEN all
    ELSE Collect(all,
                 parseEnvFile(filePath,
                              [opts EXCEPT !.accumulate = TRUE,
                                           !.systemEnv =
                                               <<[n \in DOMAIN SystemEnvOf(opts, penv)
                                                        \cup Keys(all.allVariables) |->
                                                   IF HasKey(all.allVariables, n)
                                                   THEN <<Get(all.allVariables, n)>>
                                                   ELSE SystemEnvOf(opts, penv)[n]]>>],
                              files, penv))

\* one iteration of the loop of parseEnvFiles
LoopOfParseEnvFiles(all, filePath, opts, files, penv) ==
    IF ~existsSync(files, filePath) THEN all
    ELSE Collect(all, parseEnvFile(filePath, [opts EXCEPT !.accumulate = TRUE],
                                   files, penv))

\* the loop of parseEnvFiles from path number n
RECURSIVE parseEnvFilesFrom(_, _, _, _, _, _)
parseEnvFilesFrom(filePaths, n, all, opts, files, penv) ==
    IF n > Len(filePaths) THEN all
    ELSE parseEnvFilesFrom(filePaths, n + 1,
                           LoopOfParseEnvFiles(all, filePaths[n], opts, files, penv),
                           opts, files, penv)

\* FinishParseEnvFiles throwing the last error collected
FinishParseEnvFilesThrowsLast(all, opts) ==
    IF ~opts.accumulate /\ Len(all.allErrors) > 0
    THEN Thrown(all.allErrors[Len(all.allErrors)].message)
    ELSE Returned(all.allVariables, all.allErrors)

\* the end of parseEnvFiles
FinishParseEnvFiles(all, opts) ==
    IF ~opts.accumulate /\ Len(all.allErrors) > 0
    THEN Thrown(all.allErrors[1].message)
    ELSE Returned(all.allVariables, all.allErrors)

parseEnvFiles(filePaths, opts, files, penv) ==
    FinishParseEnvFiles(
        parseEnvFilesFrom(filePaths, 1, Collected(<<>>, <<>>), opts, files, penv), opts)

----------------------------------------------------------------------------
(* Loading into process.env *)

\* key in process.env
InEnv(penv, key) == key \in DOMAIN penv /\ penv[key] # <<>>

\* process.env[key] = value
SetEnv(penv, key, value) ==
    [n \in DOMAIN penv \cup {key} |-> IF n = key THEN <<value>> ELSE penv[n]]

\* WriteEntries writing every key, whatever override is
RECURSIVE WriteEntriesAlways(_, _, _)
WriteEntriesAlways(penv, vs, override) ==
    IF vs = <<>> THEN penv
    ELSE WriteEntriesAlways(SetEnv(penv, vs[1].key, vs[1].value), Tail(vs), override)

\* the loop over Object.entries(result.variables)
RECURSIVE WriteEntries(_, _, _)
WriteEntries(penv, vs, override) ==
    IF vs = <<>> THEN penv
    ELSE WriteEntries(IF override \/ ~InEnv(penv, vs[1].key)
                      THEN SetEnv(penv, vs[1].key, vs[1].value)
                      ELSE penv,
                      Tail(vs), override)

\* a loader has returned
Void ==
    [kind |-> "void", variables |-> <<>>, errors |-> <<>>, success |-> FALSE,
     message |-> <<>>]

\* what a loader leaves: process.env and its return or throw
Loaded(penv, out) == [processEnv |-> penv, outcome |-> out]

\* the end of a loader, for what its parse returned or threw
WriteResult(result, opts, penv) ==
    IF result.kind = "thrown" THEN Loaded(penv, result)
    ELSE Loaded(WriteEntries(penv, result.variables, opts.override), Void)

loadEnvFile(filePath, opts, files, penv) ==
    IF ~existsSync(files, filePath) THEN Loaded(penv, Void)
    ELSE WriteResult(parseEnvFile(filePath, opts, files, penv), opts, penv)

\* loadEnvFiles loading the last file of the list only
loadEnvFilesLastOnly(filePaths, opts, files, penv) ==
    WriteResult(parseEnvFiles(<<filePaths[Len(filePaths)]>>, opts, files, penv),
                opts, penv)

\* loadEnvFiles loading one file after the other, each written before the
\* next is parsed
RECURSIVE loadEnvFilesOneByOne(_, _, _, _)
loadEnvFilesOneByOne(filePaths, opts, files, penv) ==
    IF filePaths = <<>> THEN Loaded(penv, Void)
    ELSE LET first == loadEnvFile(filePaths[1], opts, files, penv)
         IN  IF first.outcome.kind = "thrown" THEN first
             ELSE loadEnvFilesOneByOne(Tail(filePaths), opts, files, first.processEnv)

loadEnvFiles(filePaths, opts, files, penv) ==
    WriteResult(parseEnvFiles(filePaths, opts, files, penv), opts, penv)

----------------------------------------------------------------------------
(* Inputs *)

\* the most lines of a content
MaxLines == 3

\* key=value
Assign(key, value) == key \o <<"=">> \o value

\* ${name}
Ref(name) == <<"$", "{">> \o name \o <<"}">>

Some(v) == <<v>>

\* the contents made of at most MaxLines lines of a catalog of lines
ContentsOf(catalog) ==
    {Join(ls, <<LF>>) : ls \in UNION {[1..n -> catalog] : n \in 0..MaxLines}}

\* the options { accumulate, systemEnv, override } with systemEnv absent or
\* one of envs
OptionsWith(envs, overrides) ==
    [accumulate : BOOLEAN, systemEnv : {<<>>} \cup {Some(e) : e \in envs},
     override : overrides]

\* the same with override left at its default
OptionsOf(envs) == OptionsWith(envs, {FALSE})

MainPath == "main.env"
LocalPath == "local.env"
MissingPath == "missing.env"
LockedPath == "locked.env"
Paths == {MainPath, LocalPath, MissingPath, LockedPath}

\* a file system with `text` in the main file, `localText` in the local
\* file, a path that does not exist and a file that cannot be read
FileSystem(text, localText) ==
    [p \in Paths |->
        IF p = MainPath THEN File(TRUE, TRUE, text)
        ELSE IF p = LocalPath THEN File(TRUE, TRUE, localText)
        ELSE IF p = MissingPath THEN File(FALSE, FALSE, <<>>)
        ELSE File(TRUE, FALSE, <<>>)]

\* the same with an empty local file
FileSystemOf(text) == FileSystem(text, <<>>)

\* the path lists given to parseEnvFiles and loadEnvFiles
PathLists ==
    {<<MainPath>>, <<MissingPath, MainPath>>, <<MainPath, LockedPath>>,
     <<MissingPath>>, <<MainPath, LocalPath>>, <<LocalPath, MissingPath, MainPath>>}

NoCall == [op |-> "none", filePaths |-> <<>>]

\* the state before the call, whatever the inputs
BeforeCall ==
    /\ envAtCall = processEnv
    /\ pc = "start"
    /\ lines = <<>>
    /\ i = 0
    /\ buffer = NoBuffer
    /\ variables = <<>>
    /\ errors = <<>>
    /\ entries = <<>>
    /\ k = 1
    /\ expandedVariables = <<>>
    /\ call = NoCall
    /\ outcome = NoOutcome

InitWith(contents, optionSet, processEnvs) ==
    /\ content \in contents
    /\ options \in optionSet
    /\ processEnv \in processEnvs
    /\ fs = FileSystemOf(content)
    /\ BeforeCall

----------------------------------------------------------------------------
(* Actions *)

Frame ==
    [pc |-> pc, lines |-> lines, i |-> i, buffer |-> buffer, variables |-> variables,
     errors |-> errors, entries |-> entries, k |-> k,
     expandedVariables |-> expandedVariables, outcome |-> outcome]

SetFrame(f) ==
    /\ pc' = f.pc
    /\ lines' = f.lines
    /\ i' = f.i
    /\ buffer' = f.buffer
    /\ variables' = f.variables
    /\ errors' = f.errors
    /\ entries' = f.entries
    /\ k' = f.k
    /\ expandedVariables' = f.expandedVariables
    /\ outcome' = f.outcome

Inputs == <<content, options, processEnv, envAtCall, fs>>

SystemEnv == SystemEnvOf(options, processEnv)

\* parseEnvString(content, options) is called
CallParseEnvString ==
    /\ pc = "start"
    /\ SetFrame(EnterParseEnvString(content))
    /\ call' = [op |-> "parseEnvString", filePaths |-> <<>>]
    /\ UNCHANGED Inputs

\* the first loop reads the next line
ReadLine ==
    /\ pc = "loop"
    /\ i < Len(lines)
    /\ SetFrame(LoopIteration(Frame, options.accumulate))
    /\ UNCHANGED <<Inputs, call>>

\* the first loop is over
EndOfInput ==
    /\ pc = "loop"
    /\ ~(i < Len(lines))
    /\ SetFrame(CheckUnterminated(Frame, options.accumulate))
    /\ UNCHANGED <<Inputs, call>>

\* the second pass expands the next variable
Interpolate ==
    /\ pc = "interpolate"
    /\ k <= Len(entries)
    /\ SetFrame(InterpolateEntry(Frame, options.accumulate, SystemEnv))
    /\ UNCHANGED <<Inputs, call>>

\* the second pass is over
Return ==
    /\ pc = "interpolate"
    /\ k > Len(entries)
    /\ SetFrame(ReturnResult(Frame))
    /\ UNCHANGED <<Inputs, call>>

\* parseEnvFile(filePath, options) is called and runs to its end
CallParseEnvFile ==
    /\ pc = "start"
    /\ \E filePath \in Paths :
        /\ call' = [op |-> "parseEnvFile", filePaths |-> <<filePath>>]
        /\ outcome' = parseEnvFile(filePath, options, fs, processEnv)
    /\ pc' = "done"
    /\ UNCHANGED <<Inputs, lines, i, buffer, variables, errors, entries, k,
                   expandedVariables>>

\* parseEnvFiles(filePaths, options) is called and runs to its end
CallParseEnvFiles ==
    /\ pc = "start"
    /\ \E filePaths \in PathLists :
        /\ call' = [op |-> "parseEnvFiles", filePaths |-> filePaths]
        /\ outcome' = parseEnvFiles(filePaths, options, fs, processEnv)
    /\ pc' = "done"
    /\ UNCHANGED <<Inputs, lines, i, buffer, variables, errors, entries, k,
                   expandedVariables>>

\* loadEnvFile(filePath, options) is called and runs to its end
CallLoadEnvFile ==
    /\ pc = "start"
    /\ \E filePath \in Paths :
        LET loaded == loadEnvFile(filePath, options, fs, processEnv)
        IN  /\ call' = [op |-> "loadEnvFile", filePaths |-> <<filePath>>]
            /\ processEnv' = loaded.processEnv
            /\ outcome' = loaded.outcome
    /\ pc' = "done"
    /\ UNCHANGED <<content, options, envAtCall, fs, lines, i, buffer, variables,
                   errors, entries, k, expandedVariables>>

\* loadEnvFiles(filePaths, options) is called and runs to its end
CallLoadEnvFiles ==
    /\ pc = "start"
    /\ \E filePaths \in PathLists :
        LET loaded == loadEnvFiles(filePaths, options, fs, processEnv)
        IN  /\ call' = [op |-> "loadEnvFiles", filePaths |-> filePaths]
            /\ processEnv' = loaded.processEnv
            /\ outcome' = loaded.outcome
    /\ pc' = "done"
    /\ UNCHANGED <<content, options, envAtCall, fs, lines, i, buffer, variables,
                   errors, entries, k, expandedVariables>>

Next ==
    \/ CallParseEnvString
    \/ ReadLine
    \/ EndOfInput
    \/ Interpolate
    \/ Return
    \/ CallParseEnvFile
    \/ CallParseEnvFiles
    \/ CallLoadEnvFile
    \/ CallLoadEnvFiles

----------------------------------------------------------------------------
(* Specifications *)

NameA == <<"A">>
NameB == <<"B">>
NameC == <<"C">>
NameX == <<"X">>

\* process.env and the systemEnv option
ProcessEnvs == {[n \in {NameX} |-> Some(<<"p">>)]}
SystemEnvs == {[n \in {NameX} |-> Some(<<"s">>)]}

\* lines of every kind: assignments, quotes left open, their closing lines,
\* malformed lines, invalid keys, comments
GeneralCatalog ==
    { Assign(NameA, <<"a">>),
      Assign(NameB, <<SQ, "x">>),
      <<"y", SQ, " ", "#">>,
      Assign(<<"1", "A">>, <<"a">>),
      Assign(NameC, <<DQ>> \o Ref(NameA)),
      Assign(NameB, Ref(NameB)),
      ExportPrefix \o Assign(NameB, Ref(NameA) \o <<" ", "#", "c">>),
      <<"#", "c">> }

Init == InitWith(ContentsOf(GeneralCatalog), OptionsOf(SystemEnvs), ProcessEnvs)

Spec == Init /\ [][Next]_vars

\* single-quoted and double-quoted values, escapes, replacement patterns; no
\* reference cycle
LiteralCatalog ==
    { Assign(NameA, <<SQ>> \o Ref(NameB) \o <<SQ>>),
      Assign(NameB, <<"$", "&">>),
      Assign(NameA, Ref(NameB)),
      Assign(NameB, <<"b">>),
      Assign(NameC, <<SQ, "a", BS, "n", SQ>>),
      Assign(NameC, <<SQ, "x">>),
      <<"y", SQ>>,
      Assign(NameA, <<DQ>> \o Ref(NameC) \o <<BS, "n", DQ>>) }

InitLiteral == InitWith(ContentsOf(LiteralCatalog), OptionsOf(SystemEnvs), ProcessEnvs)

SpecLiteral == InitLiteral /\ [][Next]_vars

\* references between variables: forward, chained, circular, external
InterpCatalog ==
    { Assign(NameA, <<"a">> \o Ref(NameB)),
      Assign(NameB, Ref(NameA)),
      Assign(NameB, Ref(NameC)),
      Assign(NameC, Ref(NameA)),
      Assign(NameC, <<"c">>),
      Assign(NameA, Ref(NameX)),
      Assign(NameX, <<"x">>),
      Assign(NameB, Ref(<<"Y">>) \o Ref(NameC)),
      Assign(NameC, Ref(NameC) \o <<"c">>) }

InitInterp == InitWith(ContentsOf(InterpCatalog), OptionsOf(SystemEnvs), ProcessEnvs)

SpecInterp == InitInterp /\ [][Next]_vars

\* several files, the loaders and the override option: a main file of
\* assignments, references to the environment and a line in error, a local
\* file that redefines names of the main file or has an error of its own,
\* and a store that is empty or holds one of the names
EnvNames == {NameA, NameB, NameC, NameX}

LoadCatalog ==
    { Assign(NameA, <<"a">>),
      Assign(NameB, Ref(NameX)),
      Assign(NameX, <<"x">>),
      Assign(<<"1", "A">>, <<"a">>) }

LocalTexts ==
    { Join(<<Assign(NameA, <<"z">>), Assign(NameX, <<"m">>)>>, <<LF>>),
      Join(<<Assign(NameC, <<"c">>), Assign(<<"1", "B">>, <<"b">>)>>, <<LF>>) }

LoadProcessEnvs ==
    { [n \in EnvNames |-> <<>>],
      [n \in EnvNames |-> IF n = NameA THEN Some(<<"p">>) ELSE <<>>] }

InitLoad ==
    /\ content \in ContentsOf(LoadCatalog)
    /\ options \in OptionsWith(SystemEnvs, BOOLEAN)
    /\ processEnv \in LoadProcessEnvs
    /\ fs \in {FileSystem(content, localText) : localText \in LocalTexts}
    /\ BeforeCall

SpecLoad == InitLoad /\ [][Next]_vars

\* the decoding of values: double-quoted values with escapes, escaped
\* quotes and text after the closing quote, unquoted values with comments,
\* with quote characters and with spaces before a quote
ValueCatalog ==
    { Assign(NameA, <<DQ, "x", BS, DQ, "y", DQ, " ", "z">>),
      Assign(NameA, <<DQ, BS, "n", BS, "t", BS, "r", BS, BS, DQ, "#">>),
      Assign(NameC, <<DQ, BS, "q", BS, BS, "n", BS, SQ, DQ>>),
      Assign(NameC, <<DQ, "a", BS, DQ>>),
      Assign(NameB, <<"a", DQ, "#", DQ, "b", " ", "#", "c">>),
      Assign(NameB, <<" ", "x", " ", "y", " ", "#", "c", " ">>),
      Assign(NameB, <<" ", DQ, "v", BS, "n", DQ>>),
      Assign(NameC, <<" ", " ", SQ, "v", " ", SQ>>) }

InitValue == InitWith(ContentsOf(ValueCatalog), OptionsOf(SystemEnvs), ProcessEnvs)

SpecValue == InitValue /\ [][Next]_vars

\* multiline values: lines that open a single or a double quote, the second
\* with a backslash before a quote, lines that look like a comment, a blank
\* line or an assignment, and lines that close a quote
MultilineCatalog ==
    { Assign(NameA, <<SQ, "x">>),
      Assign(NameB, <<DQ, "a", BS, DQ>>),
      <<"#", "c">>,
      <<>>,
      Assign(NameC, <<"c">>),
      <<"y", BS, DQ, "z", DQ, " ", "#">>,
      <<"y", SQ, " ">> \o Assign(NameC, <<"c">>) }

InitMultiline == InitWith(ContentsOf(MultilineCatalog), OptionsOf(SystemEnvs), ProcessEnvs)

SpecMultiline == InitMultiline /\ [][Next]_vars

\* references that meet a name twice without a cycle (twice in one value,
\* through two paths) and references that do meet a cycle
DiamondCatalog ==
    { Assign(NameA, Ref(NameB) \o Ref(NameC)),
      Assign(NameB, Ref(NameC)),
      Assign(NameC, <<"c">>),
      Assign(NameA, Ref(NameC) \o Ref(NameC)),
      Assign(NameC, Ref(NameA)),
      Assign(NameB, Ref(NameB) \o <<"b">>),
      Assign(NameC, Ref(NameX)) }

InitDiamond == InitWith(ContentsOf(DiamondCatalog), OptionsOf(SystemEnvs), ProcessEnvs)

SpecDiamond == InitDiamond /\ [][Next]_vars

\* the errors of the three phases: a key that is not an identifier, a line
\* without "=", references on a cycle, a key assigned again, and a quote
\* that is never closed
ErrorCatalog ==
    { Assign(<<"1", "A">>, <<"a">>),
      <<"o", "o", "p", "s">>,
      Assign(NameA, Ref(NameB)),
      Assign(NameB, Ref(NameA)),
      Assign(NameA, Ref(NameA)),
      Assign(NameB, <<"b">>),
      Assign(NameC, <<SQ, "x">>) }

InitErrors == InitWith(ContentsOf(ErrorCatalog), OptionsOf(SystemEnvs), ProcessEnvs)

SpecErrors == InitErrors /\ [][Next]_vars

----------------------------------------------------------------------------
(* What the claims speak of *)

\* parseEnvString has returned or thrown
Finished == pc = "done" /\ call.op = "parseEnvString"
HasReturned == Finished /\ outcome.kind = "returned"
HasThrown == Finished /\ outcome.kind = "thrown"

\* the buffer pending when line j of ls is read
RECURSIVE BufferBefore(_, _)
BufferBefore(ls, j) ==
    IF j = 1 THEN NoBuffer
    ELSE parseLine(ls[j - 1], j - 1, BufferBefore(ls, j - 1)).buffer

\* what reading line j of ls yields
Reading(ls, j) == parseLine(ls[j], j, BufferBefore(ls, j))

\* line j of ls completes an assignment to key
Completes(ls, j, key) ==
    LET r == Reading(ls, j) IN r.isComplete /\ r.hasKey /\ r.key = key

\* the values of an object that hold a ${NAME} token
HasToken(value) == INTERPOLATION_REGEX(value, 0) # <<>>

\* line j of ls, read with no buffer pending, assigns a single-quoted value
OpensSingleQuote(ls, j) ==
    /\ BufferBefore(ls, j) = NoBuffer
    /\ LET r == parseLine(ls[j], j, NoBuffer)
       IN  /\ r.error = NoError
           /\ r.hasKey \/ r.buffer # NoBuffer
    /\ CharAt(RawValue(WorkingLine(ls[j])), 0) = SQ

\* the text from the start of line j of ls to the next single quote; the
\* line of that quote
RECURSIVE TextToQuote(_, _)
TextToQuote(ls, j) ==
    IF IndexOf(ls[j], SQ, 0) # -1 THEN Substring(ls[j], 0, IndexOf(ls[j], SQ, 0))
    ELSE ls[j] \o <<LF>> \o TextToQuote(ls, j + 1)

RECURSIVE QuoteLine(_, _)
QuoteLine(ls, j) ==
    IF j > Len(ls) THEN 0
    ELSE IF IndexOf(ls[j], SQ, 0) # -1 THEN j ELSE QuoteLine(ls, j + 1)

\* the line that closes the single quote opened on line j (0: none does)
ClosingLine(ls, j) ==
    IF IndexOf(RawValue(WorkingLine(ls[j])), SQ, 1) # -1 THEN j ELSE QuoteLine(ls, j + 1)

\* the text between the single quote opened on line j and the quote closing it
TextBetweenQuotes(ls, j) ==
    LET rest == SubstringFrom(RawValue(WorkingLine(ls[j])), 1)
    IN  IF IndexOf(rest, SQ, 0) # -1 THEN Substring(rest, 0, IndexOf(rest, SQ, 0))
        ELSE rest \o <<LF>> \o TextToQuote(ls, j + 1)

\* the key line j assigns to
KeyOf(line) ==
    LET w == WorkingLine(line) IN Trim(Substring(w, 0, IndexOf(w, "=", 0)))

----------------------------------------------------------------------------
(* Claims *)

\* C1: every value written in single quotes, closed on its opening line or
\* on a later one, is returned as the exact text between the quotes: no
\* escape is decoded and no ${NAME} token is interpolated.
SingleQuotedIsRawLiteral ==
    HasReturned =>
        \A j \in 1..Len(lines) :
            (/\ OpensSingleQuote(lines, j)
             /\ ClosingLine(lines, j) # 0
             /\ \A j2 \in (ClosingLine(lines, j) + 1)..Len(lines) :
                    ~Completes(lines, j2, KeyOf(lines[j])))
            => /\ HasKey(outcome.variables, KeyOf(lines[j]))
               /\ Get(outcome.variables, KeyOf(lines[j])) = TextBetweenQuotes(lines, j)

\* C2: no value of the returned variables holds a ${NAME} token.
NoTokenIsLeft ==
    HasReturned =>
        \A n \in 1..Len(outcome.variables) : ~HasToken(outcome.variables[n].value)

\* an object as a map from its keys to their values
AsMap(obj) == [key \in Keys(obj) |-> Get(obj, key)]

\* the names of the ${NAME} tokens of a value
NamesIn(value) ==
    LET ms == INTERPOLATION_REGEX(value, 0) IN {ms[n].varName : n \in 1..Len(ms)}

\* every line of ls is, on its own, an assignment completed on that line, and
\* no two lines assign to the same key
DistinctSingleLineAssignments(ls) ==
    /\ \A j \in 1..Len(ls) :
        LET r == parseLine(ls[j], j, NoBuffer)
        IN  r.error = NoError /\ r.isComplete /\ r.hasKey
    /\ \A j, j2 \in 1..Len(ls) : j # j2 => KeyOf(ls[j]) # KeyOf(ls[j2])

LinePermutations(n) == {p \in [1..n -> 1..n] : \A a, b \in 1..n : a # b => p[a] # p[b]}

\* the content whose lines are those of ls in the order p
Permuted(ls, p) == Join([j \in 1..Len(ls) |-> ls[p[j]]], <<LF>>)

\* C3: for a file of single-line assignments with distinct keys, every
\* permutation of the lines yields the same variables (and throws when the
\* file as given throws).
OrderOfLinesIsIrrelevant ==
    (Finished /\ DistinctSingleLineAssignments(lines)) =>
        \A p \in LinePermutations(Len(lines)) :
            LET other == parseEnvString(Permuted(lines, p), options, processEnv)
            IN  /\ other.kind = outcome.kind
                /\ AsMap(other.variables) = AsMap(outcome.variables)

\* a reference to a variable defined later in the file has been resolved
ForwardReferenceResolved ==
    /\ HasReturned
    /\ outcome.success
    /\ DistinctSingleLineAssignments(lines)
    /\ \E j, j2 \in 1..Len(lines) :
        /\ j < j2
        /\ KeyOf(lines[j2]) \in NamesIn(Get(variables, KeyOf(lines[j])))
        /\ Get(outcome.variables, KeyOf(lines[j])) # <<>>
        /\ ~HasToken(Get(outcome.variables, KeyOf(lines[j])))

\* the external environment without the names the file defines
WithoutLocalNames(systemEnv, obj) ==
    [n \in (DOMAIN systemEnv) \ Keys(obj) |-> systemEnv[n]]

\* C4: a local definition of NAME wins over an external entry of the same
\* name: the result is the one obtained with the external entries of all
\* locally defined names removed; a NAME that is not local resolves to its
\* external value when it has one, and to the empty string otherwise.
LocalDefinitionShadowsExternal ==
    HasReturned =>
        /\ parseEnvString(content,
                          [options EXCEPT
                              !.systemEnv = Some(WithoutLocalNames(SystemEnv, variables))],
                          processEnv) = outcome
        /\ \A n \in 1..Len(variables) :
            \A name \in NamesIn(variables[n].value) :
                (variables[n].value = Ref(name) /\ ~HasKey(variables, name)) =>
                    Get(outcome.variables, variables[n].key)
                        = IF DefinedIn(SystemEnv, name) THEN SystemEnv[name][1] ELSE <<>>

\* a name defined in the file and in the external environment has been
\* resolved to its local value
LocalValueUsed ==
    /\ HasReturned
    /\ \E n \in 1..Len(variables) :
        \E name \in NamesIn(variables[n].value) :
            /\ variables[n].value = Ref(name)
            /\ HasKey(variables, name)
            /\ DefinedIn(SystemEnv, name)
            /\ Get(outcome.variables, variables[n].key) = Get(variables, name)
            /\ Get(variables, name) # SystemEnv[name][1]

\* the local names the value of `key` refers to
RefersTo(obj, key) == {name \in NamesIn(Get(obj, key)) : HasKey(obj, name)}

\* the keys reached from the keys of `from` by one reference or more
RECURSIVE ReachedFrom(_, _, _)
ReachedFrom(obj, from, seen) ==
    LET next == UNION {RefersTo(obj, key) : key \in from}
    IN  IF next \subseteq seen THEN seen
        ELSE ReachedFrom(obj, next \ seen, seen \cup next)

Reaches(obj, key) == ReachedFrom(obj, {key}, {})

\* key lies on a cycle of references
OnCycle(obj, key) == key \in Reaches(obj, key)

\* the chain of references from key leads into a cycle
LeadsToCycle(obj, key) == \E name \in Reaches(obj, key) \cup {key} : OnCycle(obj, name)

\* a CircularReference error is recorded for key
CircularErrorFor(errs, key) ==
    \E n \in 1..Len(errs) :
        errs[n].type = "CIRCULAR_REFERENCE" /\ errs[n].rawContent = key

IsCircularMessage(message) ==
    message # <<>> /\ Head(message) = "Circular reference detected: "

\* the second pass has been entered
SecondPassEntered == pc = "interpolate" \/ (Finished /\ entries = variables)

\* C5: the interpolation pass terminates, the resolution stack never holding
\* more names than the file has variables and the second pass making one
\* step per variable, and every variable on a reference cycle has a
\* CircularReference error thrown (fail-fast) or recorded (accumulate).
CyclesEndInCircularReference ==
    /\ SecondPassEntered =>
        /\ k <= Len(entries) + 1
        /\ Len(expandedVariables) <= k - 1
        /\ \A n \in 1..Len(entries) :
            expandVariables(entries[n].value, variables, SystemEnv,
                            <<entries[n].key>>).deepest <= Len(variables)
    /\ (Finished /\ entries = variables) =>
        \A n \in 1..Len(variables) :
            OnCycle(variables, variables[n].key) =>
                IF options.accumulate
                THEN /\ outcome.kind = "returned"
                     /\ CircularErrorFor(outcome.errors, variables[n].key)
                ELSE /\ outcome.kind = "thrown"
                     /\ IsCircularMessage(outcome.message)

\* a cycle through several variables has been reported for each of them
IndirectCycleReported ==
    /\ HasReturned
    /\ \E a, b, c \in Keys(variables) :
        /\ a # b /\ b # c /\ a # c
        /\ b \in RefersTo(variables, a)
        /\ c \in RefersTo(variables, b)
        /\ a \in RefersTo(variables, c)
        /\ \A key \in {a, b, c} : CircularErrorFor(outcome.errors, key)

\* the entries of obj whose chain of references leads into no cycle
WithoutCycles(obj) ==
    LET Sound(e) == ~LeadsToCycle(obj, e.key) IN SelectSeq(obj, Sound)

\* what the second pass returns, in fail-fast mode, for the raw map obj
SecondPassOf(obj, systemEnv) ==
    RunParseEnvString([EnterParseEnvString(<<>>) EXCEPT
                          !.pc = "interpolate", !.variables = obj, !.entries = obj],
                      FALSE, systemEnv)

\* C6: in accumulate mode a variable whose expansion hits a circular
\* reference keeps its raw value and has a CircularReference error recorded;
\* every other variable has no such error and the value it gets, without
\* error, in a file that holds the other variables only.
CircularKeepsRawOthersResolve ==
    (HasReturned /\ options.accumulate) =>
        LET sound == SecondPassOf(WithoutCycles(variables), SystemEnv)
        IN  /\ sound.kind = "returned"
            /\ \A n \in 1..Len(variables) :
                LET key == variables[n].key
                IN  /\ HasKey(outcome.variables, key)
                    /\ IF LeadsToCycle(variables, key)
                       THEN /\ Get(outcome.variables, key) = variables[n].value
                            /\ CircularErrorFor(outcome.errors, key)
                       ELSE /\ Get(outcome.variables, key) = Get(sound.variables, key)
                            /\ ~CircularErrorFor(outcome.errors, key)

\* beside a variable that kept its raw value, another one has had its
\* reference resolved
RawKeptBesideResolved ==
    /\ HasReturned
    /\ options.accumulate
    /\ \E a, b \in Keys(variables) :
        /\ LeadsToCycle(variables, a)
        /\ HasToken(Get(outcome.variables, a))
        /\ CircularErrorFor(outcome.errors, a)
        /\ ~LeadsToCycle(variables, b)
        /\ HasToken(Get(variables, b))
        /\ ~HasToken(Get(outcome.variables, b))
        /\ Get(outcome.variables, b) # <<>>

\* the same content parsed in accumulate mode
Accumulated == parseEnvString(content, [options EXCEPT !.accumulate = TRUE], processEnv)

\* C7: fail-fast parseEnvString throws exactly when accumulate-mode parsing
\* of the same content returns errors; the message thrown is that of the
\* first of them and no variable map comes with it.
FailFastThrowsFirstError ==
    (Finished /\ ~options.accumulate) =>
        /\ Accumulated.kind = "returned"
        /\ (outcome.kind = "thrown") <=> (Accumulated.errors # <<>>)
        /\ outcome.kind = "thrown" =>
            /\ outcome.message = Accumulated.errors[1].message
            /\ outcome.variables = <<>>
        /\ outcome.kind = "returned" => outcome = Accumulated

\* fail-fast mode has thrown the first of several different errors
FirstOfSeveralThrown ==
    /\ HasThrown
    /\ ~options.accumulate
    /\ Len(Accumulated.errors) >= 2
    /\ Accumulated.errors[1].type # Accumulated.errors[2].type
    /\ outcome.message = Accumulated.errors[1].message

ParseCalls == {"parseEnvString", "parseEnvFile", "parseEnvFiles"}

\* the parse call made, with other options
SameCall(opts) ==
    IF call.op = "parseEnvString" THEN parseEnvString(content, opts, processEnv)
    ELSE IF call.op = "parseEnvFile"
    THEN parseEnvFile(call.filePaths[1], opts, fs, processEnv)
    ELSE parseEnvFiles(call.filePaths, opts, fs, processEnv)

HasErrorOfType(errs, type) == \E n \in 1..Len(errs) : errs[n].type = type

ValidOnItsOwn(ls, j) ==
    LET r == parseLine(ls[j], j, NoBuffer)
    IN  r.error = NoError /\ r.isComplete /\ r.hasKey

IsIn(errs, e) == \E n \in 1..Len(errs) : errs[n] = e

\* C9 as claimed: in accumulate mode every line that is a valid assignment
\* on its own has its key in the returned variables.
EveryValidLineIsKept ==
    (HasReturned /\ options.accumulate) =>
        \A j \in 1..Len(lines) :
            ValidOnItsOwn(lines, j) => HasKey(outcome.variables, KeyOf(lines[j]))

\* C9 as amended: in accumulate mode, of the lines read while no quoted value
\* is pending, every error is in errors and every valid assignment has its
\* key in the returned variables, with the raw value of the line when no
\* later line assigns to the key.
EveryValidLineOutsideQuotesIsKept ==
    (HasReturned /\ options.accumulate) =>
        \A j \in 1..Len(lines) :
            BufferBefore(lines, j) = NoBuffer =>
                LET r == parseLine(lines[j], j, NoBuffer)
                IN  /\ r.error # NoError => IsIn(outcome.errors, r.error[1])
                    /\ ValidOnItsOwn(lines, j) =>
                        /\ HasKey(outcome.variables, r.key)
                        /\ (\A j2 \in (j + 1)..Len(lines) : ~Completes(lines, j2, r.key))
                            => Get(variables, r.key) = r.value

\* a valid assignment after a line in error has been kept
ValidLineKeptAfterError ==
    /\ HasReturned
    /\ options.accumulate
    /\ \E j, j2 \in 1..Len(lines) :
        /\ j < j2
        /\ Reading(lines, j).error # NoError
        /\ BufferBefore(lines, j2) = NoBuffer
        /\ ValidOnItsOwn(lines, j2)
        /\ HasKey(outcome.variables, KeyOf(lines[j2]))

\* the buffer pending at the end of the lines ls
BufferAtEnd(ls) == BufferBefore(ls, Len(ls) + 1)

\* the line on which the quote still open at the end of ls was opened
OpenedAt(ls) ==
    CHOOSE j \in 1..Len(ls) :
        /\ BufferBefore(ls, j) = NoBuffer
        /\ \A j2 \in (j + 1)..(Len(ls) + 1) : BufferBefore(ls, j2) # NoBuffer

UnterminatedErrors(errs) ==
    {n \in 1..Len(errs) : errs[n].type = "UNTERMINATED_QUOTE"}

\* the content made of the lines of ls before line j
Before(ls, j) == Join(SubSeq(ls, 1, j - 1), <<LF>>)

\* C10: when the input ends with a quoted value open, one UnterminatedQuote
\* error is produced, for the line on which the quote was opened, and the
\* variables are those of the lines before it; a buffer pending after the
\* end of input comes with this error.  No such error is produced otherwise.
OpenQuoteAtEndIsUnterminated ==
    /\ Finished =>
        IF BufferAtEnd(lines) = NoBuffer
        THEN /\ UnterminatedErrors(outcome.errors) = {}
             /\ outcome.kind = "thrown" => Head(outcome.message) # "Unterminated "
        ELSE LET opened == OpenedAt(lines)
                 quoteChar == CharAt(RawValue(WorkingLine(lines[opened])), 0)
             IN  IF options.accumulate
                 THEN /\ outcome.kind = "returned"
                      /\ Cardinality(UnterminatedErrors(outcome.errors)) = 1
                      /\ \A n \in UnterminatedErrors(outcome.errors) :
                            /\ outcome.errors[n].lineNumber = opened
                            /\ outcome.errors[n].message
                                   = UnterminatedMessage(quoteChar, opened)
                      /\ outcome.variables
                            = parseEnvString(Before(lines, opened), options,
                                             processEnv).variables
                 ELSE /\ outcome.kind = "thrown"
                      /\ \/ StartsWithLine(outcome.message)
                         \/ outcome.message = UnterminatedMessage(quoteChar, opened)
    /\ ((pc = "interpolate" \/ HasReturned) /\ buffer # NoBuffer) =>
        \E n \in UnterminatedErrors(errors) : errors[n].lineNumber = buffer[1].startLine

\* a quote opened before the last line, after an assignment, was still open
\* at the end of input
QuoteLeftOpenBeforeLastLine ==
    /\ HasReturned
    /\ BufferAtEnd(lines) # NoBuffer
    /\ 1 < OpenedAt(lines)
    /\ OpenedAt(lines) < Len(lines)
    /\ outcome.variables # <<>>
    /\ \E n \in UnterminatedErrors(outcome.errors) :
        outcome.errors[n].lineNumber = OpenedAt(lines)

\* ^[a-zA-Z_][a-zA-Z0-9_]*$
IsIdentifier(key) ==
    /\ Len(key) >= 1
    /\ key[1] \in Letters \cup {"_"}
    /\ \A n \in 2..Len(key) : key[n] \in Letters \cup Digits \cup {"_"}

\* the line is neither blank nor a comment and has an "="
HasAssignmentShape(line) ==
    /\ TrimStart(line) # <<>>
    /\ ~StartsWith(TrimStart(line), <<"#">>)
    /\ IndexOf(WorkingLine(line), "=", 0) # -1

\* C11: every key of a variable map, returned by parseEnvString,
\* parseEnvFile or parseEnvFiles or held while parsing, is an identifier; a
\* line whose key is not one yields an InvalidKey error (thrown in fail-fast
\* mode) and no entry.
KeysAreIdentifiers ==
    /\ \A n \in 1..Len(outcome.variables) : IsIdentifier(outcome.variables[n].key)
    /\ \A n \in 1..Len(variables) : IsIdentifier(variables[n].key)
    /\ \A n \in 1..Len(expandedVariables) : IsIdentifier(expandedVariables[n].key)
    /\ Finished =>
        \A j \in 1..Len(lines) :
            ( /\ BufferBefore(lines, j) = NoBuffer
              /\ HasAssignmentShape(lines[j])
              /\ ~IsIdentifier(KeyOf(lines[j])) ) =>
                IF options.accumulate
                THEN /\ \E n \in 1..Len(outcome.errors) :
                            /\ outcome.errors[n].type = "INVALID_KEY"
                            /\ outcome.errors[n].lineNumber = j
                            /\ outcome.errors[n].message = InvalidKeyMessage(j, KeyOf(lines[j]))
                     /\ ~HasKey(outcome.variables, KeyOf(lines[j]))
                     /\ Len(outcome.variables)
                            <= Cardinality({j2 \in 1..Len(lines) : j2 # j})
                ELSE outcome.kind = "thrown"

\* a file with an invalid key beside a valid one has been parsed
InvalidKeyBesideValidKey ==
    /\ pc = "done"
    /\ call.op = "parseEnvFile"
    /\ outcome.kind = "returned"
    /\ HasErrorOfType(outcome.errors, "INVALID_KEY")
    /\ outcome.variables # <<>>

\* a call of op has run to its end
Done(op) == pc = "done" /\ call.op = op

\* the map source number n of the call defines, parsed on its own
SourceMap(n) ==
    parseEnvFile(call.filePaths[n], [options EXCEPT !.accumulate = TRUE], fs,
                 envAtCall).variables

\* the sources of the call that define key
Defining(key) == {n \in 1..Len(call.filePaths) : HasKey(SourceMap(n), key)}

\* the keys the sources of the call define
SourceKeys == UNION {Keys(SourceMap(n)) : n \in 1..Len(call.filePaths)}

\* the greatest member of a set of numbers
Greatest(S) == CHOOSE n \in S : \A m \in S : m <= n

\* C12: the map parseEnvFiles returns has, for every key a source defines,
\* the value of the last source of the list that defines it, keys of
\* earlier sources only included, and no other key.
MergeIsLeftToRight ==
    (Done("parseEnvFiles") /\ outcome.kind = "returned") =>
        /\ Keys(outcome.variables) = SourceKeys
        /\ \A key \in SourceKeys :
            Get(outcome.variables, key) = Get(SourceMap(Greatest(Defining(key))), key)

\* a later source has overwritten a key of an earlier one, which kept
\* another key
LaterSourceOverwrote ==
    /\ Done("parseEnvFiles")
    /\ outcome.kind = "returned"
    /\ call.filePaths = <<MainPath, LocalPath>>
    /\ \E key \in SourceKeys :
        /\ Defining(key) = {1, 2}
        /\ Get(SourceMap(1), key) # Get(SourceMap(2), key)
        /\ Get(outcome.variables, key) = Get(SourceMap(2), key)
    /\ \E key \in SourceKeys :
        /\ Defining(key) = {1}
        /\ Get(outcome.variables, key) = Get(SourceMap(1), key)

\* the paths of a list that exist
Existing(filePaths) == SelectSeq(filePaths, LAMBDA filePath : fs[filePath].exists)

\* a path of the call does not exist
HasMissingSource == \E n \in 1..Len(call.filePaths) : ~fs[call.filePaths[n]].exists

\* no error, thrown or returned, is about a file that was not found
NoFileNotFound ==
    /\ \A n \in 1..Len(outcome.errors) :
        outcome.errors[n].rawContent # <<MissingPath>>
    /\ outcome.kind = "thrown" => Head(outcome.message) # "File not found: "

\* C13: parseEnvFiles and loadEnvFiles, in fail-fast mode as in accumulate
\* mode, do with a list that names missing files what they do with the list
\* without them, and report no missing file; loadEnvFile of a missing file
\* returns and writes nothing.
MissingSourceIsSkipped ==
    /\ Done("parseEnvFiles") =>
        /\ outcome = parseEnvFiles(Existing(call.filePaths), options, fs, envAtCall)
        /\ NoFileNotFound
        /\ Existing(call.filePaths) = <<>> => outcome = Returned(<<>>, <<>>)
    /\ Done("loadEnvFiles") =>
        /\ Loaded(processEnv, outcome)
               = loadEnvFiles(Existing(call.filePaths), options, fs, envAtCall)
        /\ NoFileNotFound
        /\ Existing(call.filePaths) = <<>> => (outcome = Void /\ processEnv = envAtCall)
    /\ (Done("loadEnvFile") /\ HasMissingSource) =>
        (outcome = Void /\ processEnv = envAtCall)

\* fail-fast parseEnvFiles has returned the variables of the files around a
\* missing one
MissingSourceSkippedInFailFast ==
    /\ Done("parseEnvFiles")
    /\ ~options.accumulate
    /\ call.filePaths = <<LocalPath, MissingPath, MainPath>>
    /\ outcome.kind = "returned"
    /\ Keys(outcome.variables) = {NameA, NameB, NameX}

\* the errors of the existing files of a list, each parsed on its own, in
\* the order of the list
RECURSIVE ErrorsOfSources(_)
ErrorsOfSources(filePaths) ==
    IF filePaths = <<>> THEN <<>>
    ELSE (IF fs[Head(filePaths)].exists
          THEN parseEnvFile(Head(filePaths), [options EXCEPT !.accumulate = TRUE], fs,
                            envAtCall).errors
          ELSE <<>>)
         \o ErrorsOfSources(Tail(filePaths))

\* C14: fail-fast parseEnvFiles throws exactly when an existing source has
\* an error, with the message of the first error of the first such source;
\* otherwise it returns the merged map without error.
FailFastFilesThrowFirstError ==
    (Done("parseEnvFiles") /\ ~options.accumulate) =>
        /\ (outcome.kind = "thrown") <=> (ErrorsOfSources(call.filePaths) # <<>>)
        /\ outcome.kind = "thrown" =>
            outcome.message = ErrorsOfSources(call.filePaths)[1].message
        /\ outcome.kind # "thrown" =>
            /\ outcome.kind = "returned"
            /\ outcome.errors = <<>>
            /\ outcome.success
            /\ Keys(outcome.variables) = SourceKeys
            /\ \A key \in SourceKeys :
                \E n \in Defining(key) :
                    Get(outcome.variables, key) = Get(SourceMap(n), key)

\* two sources had errors and the first error of the first source was thrown
FirstSourceErrorThrown ==
    /\ Done("parseEnvFiles")
    /\ ~options.accumulate
    /\ call.filePaths = <<MainPath, LocalPath>>
    /\ outcome.kind = "thrown"
    /\ Len(ErrorsOfSources(<<MainPath>>)) >= 2
    /\ Len(ErrorsOfSources(<<LocalPath>>)) >= 1
    /\ outcome.message = ErrorsOfSources(<<MainPath>>)[1].message
    /\ outcome.message # ErrorsOfSources(<<MainPath>>)[2].message
    /\ outcome.message # ErrorsOfSources(<<LocalPath>>)[1].message

LoadCalls == {"loadEnvFile", "loadEnvFiles"}

\* a loader has run to its end
DoneLoading == pc = "done" /\ call.op \in LoadCalls

\* what the parse of the loader returned or threw
Parsed ==
    IF call.op = "loadEnvFile"
    THEN parseEnvFile(call.filePaths[1], options, fs, envAtCall)
    ELSE parseEnvFiles(call.filePaths, options, fs, envAtCall)

\* the loader had a map to write
HasParsed ==
    /\ DoneLoading
    /\ call.op = "loadEnvFile" => fs[call.filePaths[1]].exists
    /\ Parsed.kind = "returned"

\* the store has an entry for key; its value
StoreHas(store, key) == key \in DOMAIN store /\ store[key] # <<>>
StoreValue(store, key) == store[key][1]

\* key is in process.env as it was when the call was made
SameInStore(key) ==
    IF StoreHas(envAtCall, key)
    THEN StoreHas(processEnv, key)
         /\ StoreValue(processEnv, key) = StoreValue(envAtCall, key)
    ELSE ~StoreHas(processEnv, key)

\* process.env is what writing the map of `parsed` makes of envAtCall, or
\* envAtCall if the parse threw
WrittenFrom(parsed) ==
    IF parsed.kind # "returned" THEN processEnv = envAtCall
    ELSE \A key \in DOMAIN envAtCall \cup DOMAIN processEnv \cup Keys(parsed.variables) :
            IF /\ HasKey(parsed.variables, key)
               /\ options.override \/ ~StoreHas(envAtCall, key)
            THEN /\ StoreHas(processEnv, key)
                 /\ StoreValue(processEnv, key) = Get(parsed.variables, key)
            ELSE SameInStore(key)

\* C15: loadEnvFile and loadEnvFiles write, without override, the parsed
\* keys that process.env does not have and, with override, every parsed key,
\* each with the value of the parsed map; every other key of process.env is
\* as it was, and nothing is written when nothing was parsed.  No other call
\* writes.
LoadWritesAbsentKeysOnly ==
    IF DoneLoading /\ (call.op = "loadEnvFile" => fs[call.filePaths[1]].exists)
    THEN WrittenFrom(Parsed)
    ELSE processEnv = envAtCall

\* without override a load has kept one key of the file as it was in
\* process.env and written another
PresentKeyKeptAbsentKeyWritten ==
    /\ HasParsed
    /\ ~options.override
    /\ \E key \in Keys(Parsed.variables) :
        /\ StoreHas(envAtCall, key)
        /\ StoreValue(envAtCall, key) # Get(Parsed.variables, key)
        /\ StoreValue(processEnv, key) = StoreValue(envAtCall, key)
    /\ \E key \in Keys(Parsed.variables) :
        /\ ~StoreHas(envAtCall, key)
        /\ StoreHas(processEnv, key)
        /\ StoreValue(processEnv, key) = Get(Parsed.variables, key)

\* with override a load has replaced a value of process.env
PresentKeyOverridden ==
    /\ HasParsed
    /\ options.override
    /\ \E key \in Keys(Parsed.variables) :
        /\ StoreHas(envAtCall, key)
        /\ StoreValue(envAtCall, key) # Get(Parsed.variables, key)
        /\ StoreValue(processEnv, key) = Get(Parsed.variables, key)

\* the keys the lines of a text assign to
DeclaredIn(text) ==
    LET ls == SplitLines(NormalizeLineEndings(text))
    IN  {KeyOf(ls[j]) : j \in {j2 \in 1..Len(ls) : Completes(ls, j2, KeyOf(ls[j2]))}}

\* the keys the files of the call assign to
DeclaredKeys ==
    UNION {DeclaredIn(fs[call.filePaths[n]].text) :
               n \in {m \in 1..Len(call.filePaths) : fs[call.filePaths[m]].exists}}

\* the load has written a map parsed without error
LoadedWithoutError == HasParsed /\ outcome = Void /\ Parsed.errors = <<>>

\* C16 as claimed: after a load without error every key the files declare
\* is in process.env with its interpolated value.
LoadedKeysHaveFileValues ==
    LoadedWithoutError =>
        \A key \in DeclaredKeys :
            /\ StoreHas(processEnv, key)
            /\ StoreValue(processEnv, key) = Get(Parsed.variables, key)

\* if `parsed` has no error: the declared keys are its keys and each is in
\* process.env, with the value of `parsed` if it was to be written and the
\* value of envAtCall otherwise
DeclaredKeysStoredFrom(parsed) ==
    (parsed.kind = "returned" /\ parsed.errors = <<>>) =>
        /\ DeclaredKeys = Keys(parsed.variables)
        /\ \A key \in DeclaredKeys :
            /\ StoreHas(processEnv, key)
            /\ StoreValue(processEnv, key)
                   = IF options.override \/ ~StoreHas(envAtCall, key)
                     THEN Get(parsed.variables, key)
                     ELSE StoreValue(envAtCall, key)

\* C16 as amended: after a load without error every key the files declare
\* is in process.env, with its interpolated value if override is set or the
\* key was absent before the load, with the value it had before otherwise.
LoadedKeysAreInStore ==
    (DoneLoading /\ outcome = Void
        /\ (call.op = "loadEnvFile" => fs[call.filePaths[1]].exists)) =>
        DeclaredKeysStoredFrom(Parsed)

\* two files were loaded without error: an interpolated value was written
\* and a key of process.env kept its value
InterpolatedValueLoaded ==
    /\ LoadedWithoutError
    /\ call.filePaths = <<MainPath, LocalPath>>
    /\ ~options.override
    /\ DeclaredKeys = {NameA, NameB, NameX}
    /\ StoreHas(envAtCall, NameA)
    /\ StoreValue(envAtCall, NameA) = <<"p">>
    /\ Get(Parsed.variables, NameA) = <<"z">>
    /\ StoreValue(processEnv, NameA) = <<"p">>
    /\ StoreValue(processEnv, NameB) = <<"x">>
    /\ StoreValue(processEnv, NameX) = <<"m">>

\* process.env after loadEnvFile(filePath, options) on the current state
EnvAfterLoading(filePath) == loadEnvFile(filePath, options, fs, processEnv).processEnv

\* C17: parseEnvString called again with the same content and the same
\* options returns or throws the same, whatever load ran since the first
\* call and whatever process.env holds.
ParsingIsPure ==
    /\ Finished =>
        \A filePath \in Paths :
            parseEnvString(content, options, EnvAfterLoading(filePath)) = outcome
    /\ DoneLoading =>
        parseEnvString(content, options, processEnv)
            = parseEnvString(content, options, envAtCall)

\* the number of backslashes that end just before index n of s, index 0
\* (the opening quote) left out
RECURSIVE BackslashesBefore(_, _)
BackslashesBefore(s, n) ==
    IF n <= 1 \/ CharAt(s, n - 1) # BS THEN 0 ELSE 1 + BackslashesBefore(s, n - 1)

\* index n of s is the second character of a backslash pair
EscapedAt(s, n) == BackslashesBefore(s, n) % 2 = 1

\* the index of the first double quote after the opening one that is not the
\* second character of a backslash pair; -1 when there is none
ClosingQuote(s) ==
    LET closing == {n \in 1..(Len(s) - 1) : CharAt(s, n) = DQ /\ ~EscapedAt(s, n)}
    IN  IF closing = {} THEN -1 ELSE Min(closing)

\* the text with each backslash pair replaced by what it stands for
RECURSIVE DecodePairs(_)
DecodePairs(s) ==
    IF s = <<>> THEN <<>>
    ELSE IF s[1] = BS /\ Len(s) >= 2
    THEN (IF s[2] = "n" THEN <<LF>>
          ELSE IF s[2] = "t" THEN <<TAB>>
          ELSE IF s[2] = "r" THEN <<CR>>
          ELSE IF s[2] = BS THEN <<BS>>
          ELSE IF s[2] = DQ THEN <<DQ>>
          ELSE <<s[1], s[2]>>)
         \o DecodePairs(SubSeq(s, 3, Len(s)))
    ELSE <<s[1]>> \o DecodePairs(Tail(s))

\* line j of ls, read with no buffer pending, assigns to a valid key
AssignsAt(ls, j) ==
    /\ BufferBefore(ls, j) = NoBuffer
    /\ HasAssignmentShape(ls[j])
    /\ IsIdentifier(KeyOf(ls[j]))

\* everything after the "=" of a line
RawOf(line) == RawValue(WorkingLine(line))

\* line j of ls assigns a double-quoted value
DoubleQuotedAt(ls, j) == AssignsAt(ls, j) /\ CharAt(RawOf(ls[j]), 0) = DQ

\* the text a double-quoted value closed on its line encloses, decoded
DecodedValue(line) == DecodePairs(Substring(RawOf(line), 1, ClosingQuote(RawOf(line))))

\* no later line of ls than j completes an assignment to the key of line j
LastFor(ls, j) == \A j2 \in (j + 1)..Len(ls) : ~Completes(ls, j2, KeyOf(ls[j]))

\* C18: a double-quoted value is closed on its line by the first double
\* quote that is not the second character of a backslash pair, and stored as
\* the enclosed text with the pairs for LF, TAB, CR, backslash and double
\* quote decoded and every other pair kept; without such a quote the value
\* is left open.
DoubleQuotedIsDecoded ==
    /\ (pc = "loop" /\ i >= 1 /\ DoubleQuotedAt(lines, i)) =>
        IF ClosingQuote(RawOf(lines[i])) = -1
        THEN /\ buffer # NoBuffer
             /\ buffer[1].key = KeyOf(lines[i])
             /\ buffer[1].startLine = i
        ELSE /\ buffer = NoBuffer
             /\ HasKey(variables, KeyOf(lines[i]))
             /\ Get(variables, KeyOf(lines[i])) = DecodedValue(lines[i])
    /\ HasReturned =>
        \A j \in 1..Len(lines) :
            ( /\ DoubleQuotedAt(lines, j)
              /\ ClosingQuote(RawOf(lines[j])) # -1
              /\ LastFor(lines, j)
              /\ ~HasToken(DecodedValue(lines[j])) ) =>
                Get(outcome.variables, KeyOf(lines[j])) = DecodedValue(lines[j])

\* a value with an escaped quote and a value with an unknown escape have
\* been returned
EscapedQuoteAndUnknownEscapeReturned ==
    /\ HasReturned
    /\ \E j \in 1..Len(lines) :
        /\ DoubleQuotedAt(lines, j)
        /\ ClosingQuote(RawOf(lines[j])) # -1
        /\ LastFor(lines, j)
        /\ \E n \in 1..(ClosingQuote(RawOf(lines[j])) - 1) :
            CharAt(RawOf(lines[j]), n) = DQ
        /\ Get(outcome.variables, KeyOf(lines[j])) = <<"x", DQ, "y">>
    /\ \E j \in 1..Len(lines) :
        /\ DoubleQuotedAt(lines, j)
        /\ ClosingQuote(RawOf(lines[j])) # -1
        /\ LastFor(lines, j)
        /\ Get(outcome.variables, KeyOf(lines[j])) = <<BS, "q", BS, "n", BS, SQ>>

\* the quote open before index n of s ("none": none), where a quote
\* character opens a quote and the same character closes it
RECURSIVE QuoteOpenAt(_, _)
QuoteOpenAt(s, n) ==
    IF n = 0 THEN "none"
    ELSE LET open == QuoteOpenAt(s, n - 1)
             c == CharAt(s, n - 1)
         IN  IF open = "none" THEN (IF c \in {SQ, DQ} THEN c ELSE "none")
             ELSE IF c = open THEN "none" ELSE open

\* the index of the first "#" of s that is not inside a quote; -1: none
CommentStart(s) ==
    LET starts == {n \in 0..(Len(s) - 1) : CharAt(s, n) = "#" /\ QuoteOpenAt(s, n) = "none"}
    IN  IF starts = {} THEN -1 ELSE Min(starts)

\* the text trimmed, cut at the first "#" outside quotes and right-trimmed
WithoutComment(raw) ==
    IF CommentStart(Trim(raw)) = -1 THEN Trim(raw)
    ELSE TrimEnd(Substring(Trim(raw), 0, CommentStart(Trim(raw))))

\* line j of ls assigns an unquoted value
UnquotedAt(ls, j) ==
    /\ AssignsAt(ls, j)
    /\ CharAt(Trim(RawOf(ls[j])), 0) \notin {SQ, DQ}

\* a "#" of the unquoted value is inside a quote
HasQuotedHash(raw) ==
    \E n \in 0..(Len(Trim(raw)) - 1) :
        CharAt(Trim(raw), n) = "#" /\ QuoteOpenAt(Trim(raw), n) # "none"

\* C19: an unquoted value is stored as the text after "=" trimmed, cut at
\* the first "#" that is not inside a quote and right-trimmed.
UnquotedStopsAtCommentOutsideQuotes ==
    (pc = "loop" /\ i >= 1 /\ UnquotedAt(lines, i)) =>
        /\ HasKey(variables, KeyOf(lines[i]))
        /\ Get(variables, KeyOf(lines[i])) = WithoutComment(RawOf(lines[i]))

\* line j of ls has spaces between its "=" and an opening quote
SpacedQuoteAt(ls, j) ==
    /\ AssignsAt(ls, j)
    /\ CharAt(RawOf(ls[j]), 0) = " "
    /\ CharAt(TrimStart(RawOf(ls[j])), 0) \in {SQ, DQ}

\* the line without the spaces between its "=" and the value
Tight(line) ==
    Substring(WorkingLine(line), 0, IndexOf(WorkingLine(line), "=", 0) + 1)
        \o TrimStart(RawOf(line))

\* C20: a line with spaces between "=" and an opening quote is decoded as
\* the same line without those spaces: same value when the quote is closed
\* on the line, same buffer when it is not.
SpacesBeforeQuoteAreIgnored ==
    (pc = "loop" /\ i >= 1 /\ SpacedQuoteAt(lines, i)) =>
        /\ buffer = parseLine(Tight(lines[i]), i, NoBuffer).buffer
        /\ parseLine(Tight(lines[i]), i, NoBuffer).isComplete =>
            /\ HasKey(variables, KeyOf(lines[i]))
            /\ Get(variables, KeyOf(lines[i]))
                   = parseLine(Tight(lines[i]), i, NoBuffer).value

\* the value with each ${NAME} token replaced, where it stands, by the
\* resolved value of NAME: for a local name its own value so replaced, else
\* the value of the system environment, else nothing
RECURSIVE Substituted(_, _, _, _)
Substituted(value, n, vs, systemEnv) ==
    IF ~(n < Len(value)) THEN <<>>
    ELSE IF MatchesAt(value, n)
    THEN LET e == IdentifierEnd(value, n + 2)
             name == Substring(value, n + 2, e)
         IN  (IF HasKey(vs, name) THEN Substituted(Get(vs, name), 0, vs, systemEnv)
              ELSE IF name \in DOMAIN systemEnv /\ systemEnv[name] # <<>>
              THEN systemEnv[name][1]
              ELSE <<>>)
             \o Substituted(value, e + 1, vs, systemEnv)
    ELSE <<CharAt(value, n)>> \o Substituted(value, n + 1, vs, systemEnv)

\* C21: where no reference is circular, every returned value is the raw
\* value with each ${NAME} token replaced at its position by the resolved
\* value of NAME, character for character, and the rest unchanged.
TokensAreReplacedInPlace ==
    (HasReturned /\ ~HasErrorOfType(outcome.errors, "CIRCULAR_REFERENCE")) =>
        \A n \in 1..Len(variables) :
            Get(outcome.variables, variables[n].key)
                = Substituted(variables[n].value, 0, variables, SystemEnv)

\* C22: fail-fast parseEnvFile of a readable file throws exactly when
\* parseEnvString of its text throws, with the same message, and returns
\* the same otherwise.
FileThrowsWhatStringThrows ==
    (Done("parseEnvFile") /\ ~options.accumulate /\ CanRead(fs, call.filePaths[1])) =>
        outcome = parseEnvString(fs[call.filePaths[1]].text, options, envAtCall)

\* the names of a chain joined by " -> "
RECURSIVE Arrowed(_)
Arrowed(chain) ==
    IF Len(chain) = 1 THEN chain[1]
    ELSE chain[1] \o <<" -> ">> \o Arrowed(Tail(chain))

\* the chains of two names or more over the keys of obj, a repeated name
\* counted once more
Chains(obj) == UNION {[1..n -> Keys(obj)] : n \in 2..(Len(obj) + 1)}

\* chain starts at top, each name is referenced by the value of the name
\* before it, no name but the last is met twice and the last is met before
IsDescentChain(obj, chain, top) ==
    /\ chain[1] = top
    /\ \A n \in 1..(Len(chain) - 1) : chain[n + 1] \in RefersTo(obj, chain[n])
    /\ \A m, n \in 1..(Len(chain) - 1) : m # n => chain[m] # chain[n]
    /\ \E n \in 1..(Len(chain) - 1) : chain[n] = chain[Len(chain)]

\* message reports a descent chain of obj from top
ReportsChainFrom(obj, message, top) ==
    \E chain \in Chains(obj) :
        /\ IsDescentChain(obj, chain, top)
        /\ message = <<"Circular reference detected: ">> \o Arrowed(chain)

\* C23: the message of a CircularReference error lists, joined by " -> ",
\* a chain of references that starts at the variable being expanded, goes
\* from each name to a name its value refers to, and ends with the first
\* name met a second time.
CircularMessageListsChain ==
    /\ HasReturned =>
        \A n \in 1..Len(outcome.errors) :
            outcome.errors[n].type = "CIRCULAR_REFERENCE" =>
                ReportsChainFrom(variables, outcome.errors[n].message,
                                 outcome.errors[n].rawContent)
    /\ (HasThrown /\ IsCircularMessage(outcome.message)) =>
        \E n \in 1..Len(variables) :
            /\ ReportsChainFrom(variables, outcome.message, variables[n].key)
            /\ \A m \in 1..(n - 1) : ~LeadsToCycle(variables, variables[m].key)

\* a chain that ends in a cycle the first variable is not part of has been
\* reported
ChainIntoCycleReported ==
    /\ HasReturned
    /\ \E n \in 1..Len(outcome.errors) :
        /\ outcome.errors[n].type = "CIRCULAR_REFERENCE"
        /\ outcome.errors[n].message
               = <<"Circular reference detected: ">>
                     \o Arrowed(<<NameA, NameB, NameC, NameC>>)

\* C24: in every result parseEnvString, parseEnvFile or parseEnvFiles
\* returns, success is true exactly when errors is empty.
SuccessIffNoErrors ==
    (pc = "done" /\ call.op \in ParseCalls /\ outcome.kind = "returned") =>
        (outcome.success <=> outcome.errors = <<>>)

\* parseEnvFiles has returned the errors of two sources without success
ErrorsOfTwoSourcesReturned ==
    /\ Done("parseEnvFiles")
    /\ outcome.kind = "returned"
    /\ ~outcome.success
    /\ HasErrorOfType(outcome.errors, "FILE_READ_ERROR")
    /\ HasErrorOfType(outcome.errors, "UNTERMINATED_QUOTE")
    /\ outcome.variables # <<>>

\* the index of the first c of line, from 0; -1 when line has none
FirstIndexOf(line, c) ==
    IF \E n \in 1..Len(line) : line[n] = c
    THEN Min({n \in 1..Len(line) : line[n] = c}) - 1
    ELSE -1

\* obj2 is obj with key set to value and nothing else changed
IsPut(obj, obj2, key, value) ==
    /\ Keys(obj2) = Keys(obj) \cup {key}
    /\ Get(obj2, key) = value
    /\ \A other \in Keys(obj) \ {key} : Get(obj2, other) = Get(obj, other)

\* the pending buffer holds the key and the quote of the line it was opened
\* on and the text from that quote to the end of the last line read
BufferHoldsTextSinceQuote ==
    (pc = "loop" /\ buffer # NoBuffer) =>
        LET opened == buffer[1].startLine
        IN  /\ opened \in 1..i
            /\ buffer[1].key = KeyOf(lines[opened])
            /\ buffer[1].quoteChar = CharAt(RawOf(lines[opened]), 0)
            /\ buffer[1].value
                   = Join(<<SubstringFrom(RawOf(lines[opened]), 1)>>
                              \o SubSeq(lines, opened + 1, i), <<LF>>)

\* reading the next line with a buffer pending: no error and, without the
\* quote character in the line, no variable and the line added to the buffer
\* after LF; with it, the buffer dropped and its key set to the buffer's
\* text, LF and the line up to the first quote character, as they are
ContinuationLineRead ==
    (pc = "loop" /\ i < Len(lines) /\ buffer # NoBuffer) =>
        /\ pc' = "loop"
        /\ i' = i + 1
        /\ errors' = errors
        /\ IF FirstIndexOf(lines[i + 1], buffer[1].quoteChar) = -1
           THEN /\ variables' = variables
                /\ buffer' = <<[key |-> buffer[1].key,
                                value |-> buffer[1].value \o <<LF>> \o lines[i + 1],
                                quoteChar |-> buffer[1].quoteChar,
                                startLine |-> buffer[1].startLine]>>
           ELSE /\ buffer' = NoBuffer
                /\ IsPut(variables, variables', buffer[1].key,
                         buffer[1].value \o <<LF>>
                             \o SubSeq(lines[i + 1], 1,
                                       FirstIndexOf(lines[i + 1], buffer[1].quoteChar)))

\* C25: while a buffer is pending every line is continuation text, which
\* yields no variable and no error, until the first line that has the
\* buffer's quote character; the value is then the text since the opening
\* quote, LF and that line up to its first quote character, no escape
\* decoded, and no buffer is pending.
PendingBufferConsumesLines == []BufferHoldsTextSinceQuote /\ [][ContinuationLineRead]_vars

\* a double-quoted value was closed on its third line by a quote that
\* follows a backslash, after a line that looks like an assignment
BackslashQuoteClosedBuffer ==
    /\ pc = "loop"
    /\ i = 3
    /\ buffer = NoBuffer
    /\ errors = <<>>
    /\ variables = <<Entry(NameB, <<"a", BS, DQ, LF, "C", "=", "c", LF, "y", BS>>)>>

\* C26: a CircularReference is reported for a variable exactly when a chain
\* of local references from it reaches a name already on the chain, so not
\* for a name referenced twice in one value or reached through two paths:
\* in accumulate mode one is recorded for those variables and no other, and
\* in fail-fast mode one is thrown only if there is such a variable and a
\* result is returned only if there is none.
CircularIffChainMeetsItself ==
    /\ (HasReturned /\ options.accumulate) =>
        \A n \in 1..Len(variables) :
            CircularErrorFor(outcome.errors, variables[n].key)
                <=> LeadsToCycle(variables, variables[n].key)
    /\ (HasReturned /\ ~options.accumulate) =>
        \A n \in 1..Len(variables) : ~LeadsToCycle(variables, variables[n].key)
    /\ (HasThrown /\ IsCircularMessage(outcome.message)) =>
        \E n \in 1..Len(variables) : LeadsToCycle(variables, variables[n].key)

\* a name reached through two paths was expanded on both without an error
DiamondExpandedWithoutError ==
    /\ HasReturned
    /\ options.accumulate
    /\ variables = <<Entry(NameA, Ref(NameB) \o Ref(NameC)),
                     Entry(NameB, Ref(NameC)),
                     Entry(NameC, <<"c">>)>>
    /\ outcome.errors = <<>>
    /\ Get(outcome.variables, NameA) = <<"c", "c">>

\* the maps of the first n sources, each parsed from its own text and the
\* external snapshot alone, merged in list order
RECURSIVE MergedApart(_, _)
MergedApart(filePaths, n) ==
    IF n = 0 THEN <<>>
    ELSE ObjectAssign(
             MergedApart(filePaths, n - 1),
             IF CanRead(fs, filePaths[n])
             THEN parseEnvString(fs[filePaths[n]].text,
                                 [options EXCEPT !.accumulate = TRUE], envAtCall).variables
             ELSE <<>>)

\* the lines of source number n of the call
SourceLines(n) ==
    IF CanRead(fs, call.filePaths[n])
    THEN SplitLines(NormalizeLineEndings(fs[call.filePaths[n]].text))
    ELSE <<>>

\* a line of ls assigns to name
AssignedIn(ls, name) == \E j \in 1..Len(ls) : StartsWith(ls[j], name \o <<"=">>)

\* line j of source n is the last assignment to key of the whole list, its
\* value is the token of a name its source does not assign
LastAssignsForeignToken(n, j, key, name) ==
    /\ SourceLines(n)[j] = Assign(key, Ref(name))
    /\ ~AssignedIn(SourceLines(n), name)
    /\ ~AssignedIn(SubSeq(SourceLines(n), j + 1, Len(SourceLines(n))), key)
    /\ \A later \in (n + 1)..Len(call.filePaths) : ~AssignedIn(SourceLines(later), key)

\* C27: parseEnvFiles parses and interpolates each source on its own: the
\* map it returns is the merge of the maps of each source parsed from its
\* text and the external snapshot alone, and a token naming a variable its
\* source does not define has the snapshot's value, or none, even when
\* another source of the list defines the name.
SourcesAreInterpolatedApart ==
    (Done("parseEnvFiles") /\ outcome.kind = "returned") =>
        /\ outcome.variables = MergedApart(call.filePaths, Len(call.filePaths))
        /\ \A n \in 1..Len(call.filePaths) : \A j \in 1..Len(SourceLines(n)) :
            \A key, name \in EnvNames :
                LastAssignsForeignToken(n, j, key, name) =>
                    /\ HasKey(outcome.variables, key)
                    /\ Get(outcome.variables, key)
                           = IF DefinedIn(SystemEnv, name) THEN SystemEnv[name][1] ELSE <<>>

\* a token of the last source names a variable that only the first source
\* defines, and has no value
TokenOfOtherSourceUnresolved ==
    /\ Done("parseEnvFiles")
    /\ outcome.kind = "returned"
    /\ call.filePaths = <<LocalPath, MissingPath, MainPath>>
    /\ \E j \in 1..Len(SourceLines(3)) : LastAssignsForeignToken(3, j, NameB, NameX)
    /\ AssignedIn(SourceLines(1), NameX)
    /\ HasKey(outcome.variables, NameX)
    /\ Get(outcome.variables, NameX) = <<"m">>
    /\ HasKey(outcome.variables, NameB)
    /\ Get(outcome.variables, NameB) = <<>>

\* what the loader of the call leaves when it runs once more, on the store
\* as it is, with the same paths, options and files
LoadedAgain ==
    IF call.op = "loadEnvFile"
    THEN loadEnvFile(call.filePaths[1], options, fs, processEnv)
    ELSE loadEnvFiles(call.filePaths, options, fs, processEnv)

\* C28: loading is idempotent: a second run of loadEnvFile or loadEnvFiles
\* with the same files and options leaves the store as the first run left
\* it, for override false and for override true.
LoadingIsIdempotent == DoneLoading => LoadedAgain.processEnv = processEnv

\* the same for override false alone
LoadingWithoutOverrideIsIdempotent ==
    (DoneLoading /\ ~options.override) => LoadedAgain.processEnv = processEnv

\* the same for loadEnvFile alone
LoadingOneFileIsIdempotent ==
    Done("loadEnvFile") => LoadedAgain.processEnv = processEnv

\* C29: when loadEnvFile or loadEnvFiles throws, process.env is exactly as
\* it was before the call: no key of the failing load is written, whatever
\* the sources before the one in error define.
FailedLoadWritesNothing ==
    (DoneLoading /\ outcome.kind = "thrown") => processEnv = envAtCall

\* loadEnvFiles threw for an error of its second source, the first source
\* has no error and defines a key the store lacks, and the store is as it was
LoadThrewAfterSoundSource ==
    /\ Done("loadEnvFiles")
    /\ outcome.kind = "thrown"
    /\ call.filePaths = <<MainPath, LocalPath>>
    /\ parseEnvFile(MainPath, options, fs, envAtCall).kind = "returned"
    /\ \E key \in Keys(parseEnvFile(MainPath, options, fs, envAtCall).variables) :
        ~StoreHas(envAtCall, key)
    /\ processEnv = envAtCall

\* the phase of parseEnvString that records an error of a type
Phase(type) ==
    CASE type \in {"MALFORMED_LINE", "INVALID_KEY"} -> 1
      [] type = "UNTERMINATED_QUOTE" -> 2
      [] type = "CIRCULAR_REFERENCE" -> 3
      [] OTHER -> 0

\* the number of the first line of ls that assigns to key; 0 if none does
FirstAssignedAt(ls, key) ==
    LET at == {j \in 1..Len(ls) : AssignsAt(ls, j) /\ KeyOf(ls[j]) = key}
    IN  IF at = {} THEN 0 ELSE Min(at)

\* C30: in accumulate mode the errors of parseEnvString are in the order of
\* the phases: the MalformedLine and InvalidKey errors by ascending line
\* number, one per line at most, then one UnterminatedQuote error at most,
\* then the CircularReference errors, one for each variable whose expansion
\* failed, in the order the variables were first assigned.
ErrorsAreInPhaseOrder ==
    (HasReturned /\ options.accumulate) =>
        LET errs == outcome.errors
            of(p) == {n \in 1..Len(errs) : Phase(errs[n].type) = p}
        IN  /\ \A n \in 1..Len(errs) : Phase(errs[n].type) \in 1..3
            /\ \A m, n \in 1..Len(errs) :
                m < n => Phase(errs[m].type) <= Phase(errs[n].type)
            /\ \A n \in of(1) : errs[n].lineNumber \in 1..Len(lines)
            /\ \A m, n \in of(1) : m < n => errs[m].lineNumber < errs[n].lineNumber
            /\ Cardinality(of(2)) <= 1
            /\ \A n \in of(3) : FirstAssignedAt(lines, errs[n].rawContent) > 0
            /\ \A m, n \in of(3) :
                m < n => FirstAssignedAt(lines, errs[m].rawContent)
                             < FirstAssignedAt(lines, errs[n].rawContent)
            /\ \A key \in Keys(variables) :
                CircularErrorFor(errs, key) <=> LeadsToCycle(variables, key)

\* errors of the three phases were returned, the circular reference being
\* on a line before the one that opens the quote
ErrorsOfThreePhasesReturned ==
    /\ HasReturned
    /\ options.accumulate
    /\ lines = <<Assign(<<"1", "A">>, <<"a">>), Assign(NameA, Ref(NameA)),
                 Assign(NameC, <<SQ, "x">>)>>
    /\ Len(outcome.errors) = 3
    /\ outcome.errors[1].type = "INVALID_KEY"
    /\ outcome.errors[2].type = "UNTERMINATED_QUOTE"
    /\ outcome.errors[3].type = "CIRCULAR_REFERENCE"

\* two variables on one cycle, the first assigned again on a later line,
\* have their errors in the order of their first lines
CircularErrorsInFirstAssignedOrder ==
    /\ HasReturned
    /\ options.accumulate
    /\ lines = <<Assign(NameA, Ref(NameB)), Assign(NameB, Ref(NameA)),
                 Assign(NameA, Ref(NameA))>>
    /\ Len(outcome.errors) = 2
    /\ outcome.errors[1].rawContent = NameA
    /\ outcome.errors[2].rawContent = NameB

====
